---- MODULE Spec2Model ----
(***************************************************************************)
(* A model of the 6502 CPU engine of the NES emulator (src/src/core.rs),   *)
(* its opcode table (src/src/opcodes.rs) and the bus it talks to.          *)
(***************************************************************************)
EXTENDS Integers, Sequences, FiniteSets, TLC

(***************************************************************************)
(* Machine arithmetic                                                      *)
(***************************************************************************)
Byte == 0..255

Word == 0..65535

\* the addition without the wrap
plain_add_u8(a, b) == a + b

\* u8 wrapping_add / wrapping_sub
wrapping_add_u8(a, b) == (a + b) % 256

wrapping_sub_u8(a, b) == (a - b) % 256

\* u16 wrapping_add
wrapping_add_u16(a, b) == (a + b) % 65536

\* `as u8` of a wider or signed integer
as_u8(v) == v % 256

\* `as i8` of a u8
as_i8(b) == IF b >= 128 THEN b - 256 ELSE b

\* `as u16` of an i8 (sign extension)
i8_as_u16(v) == v % 65536

\* i8::wrapping_neg
wrapping_neg_i8(v) == IF v = -128 THEN -128 ELSE -v

\* i8::wrapping_sub
wrapping_sub_i8(v, k) == ((v - k + 128) % 256) - 128

RECURSIVE BitAnd(_, _)
BitAnd(a, b) ==
    IF a = 0 \/ b = 0 THEN 0
    ELSE (a % 2) * (b % 2) + 2 * BitAnd(a \div 2, b \div 2)

RECURSIVE BitOr(_, _)
BitOr(a, b) ==
    IF a = 0 THEN b
    ELSE IF b = 0 THEN a
    ELSE (IF a % 2 = 1 \/ b % 2 = 1 THEN 1 ELSE 0) + 2 * BitOr(a \div 2, b \div 2)

RECURSIVE BitXor(_, _)
BitXor(a, b) ==
    IF a = 0 THEN b
    ELSE IF b = 0 THEN a
    ELSE (IF a % 2 # b % 2 THEN 1 ELSE 0) + 2 * BitXor(a \div 2, b \div 2)

\* u8 `<<= 1` and `>>= 1`
shl1_u8(a) == (a * 2) % 256

shr1_u8(a) == a \div 2

(***************************************************************************)
(* CpuFlags (bitflags over u8)                                             *)
(***************************************************************************)
CARRY == 1

ZERO == 2

INTERRUPT_DISABLE == 4

DECIMAL_MODE == 8

BREAK == 16

BREAK2 == 32

OVERFLOW == 64

NEGATIVE == 128

\* union of all defined flag constants
CpuFlagsAll ==
    BitOr(CARRY, BitOr(ZERO, BitOr(INTERRUPT_DISABLE, BitOr(DECIMAL_MODE,
    BitOr(BREAK, BitOr(BREAK2, BitOr(OVERFLOW, NEGATIVE)))))))

contains(s, f) == BitAnd(s, f) = f

insert(s, f) == BitOr(s, f)

remove(s, f) == BitAnd(s, 255 - f)

set(s, f, b) == IF b THEN insert(s, f) ELSE remove(s, f)

from_bits_truncate(b) == BitAnd(b, CpuFlagsAll)

\* from_bits for a flag set in which bit 5 is not defined
from_bits_without_break2(b) == IF BitAnd(b, BREAK2) = 0 THEN b ELSE -1

\* from_bits yields None (modelled as -1) when an undefined bit is set
from_bits(b) == IF BitAnd(b, 255 - CpuFlagsAll) = 0 THEN b ELSE -1

(***************************************************************************)
(* Opcode table                                                            *)
(***************************************************************************)
Opcode(code, mnemonic, len, cycles, mode) ==
    [code |-> code, mnemonic |-> mnemonic, len |-> len, cycles |-> cycles, mode |-> mode]

CPU_OPS_CODES == <<
    Opcode(  0, "BRK", 1, 7, "NoneAddressing"),
    Opcode(  8, "PHP", 1, 3, "NoneAddressing"),
    Opcode( 24, "CLC", 1, 0, "NoneAddressing"),
    Opcode( 32, "JSR", 3, 6, "Absolute"),
    Opcode( 40, "PLP", 1, 4, "NoneAddressing"),
    Opcode( 56, "SEC", 1, 0, "NoneAddressing"),
    Opcode( 64, "RTI", 1, 6, "NoneAddressing"),
    Opcode( 72, "PHA", 1, 0, "NoneAddressing"),
    Opcode( 88, "CLI", 1, 0, "NoneAddressing"),
    Opcode( 96, "RTS", 1, 6, "NoneAddressing"),
    Opcode(104, "PLA", 1, 0, "NoneAddressing"),
    Opcode(120, "SEI", 1, 0, "NoneAddressing"),
    Opcode(136, "DEY", 1, 2, "NoneAddressing"),
    Opcode(138, "TXA", 1, 2, "NoneAddressing"),
    Opcode(152, "TYA", 1, 2, "NoneAddressing"),
    Opcode(154, "TXS", 1, 2, "NoneAddressing"),
    Opcode(168, "TAY", 1, 2, "NoneAddressing"),
    Opcode(170, "TAX", 1, 2, "NoneAddressing"),
    Opcode(184, "CLV", 1, 0, "NoneAddressing"),
    Opcode(186, "TSX", 1, 2, "NoneAddressing"),
    Opcode(200, "INY", 1, 2, "NoneAddressing"),
    Opcode(202, "DEX", 1, 2, "NoneAddressing"),
    Opcode(216, "CLD", 1, 0, "NoneAddressing"),
    Opcode(232, "INX", 1, 2, "NoneAddressing"),
    Opcode(248, "SED", 1, 0, "NoneAddressing"),
    Opcode( 97, "ADC", 2, 6, "Indirect_X"),
    Opcode(101, "ADC", 2, 3, "ZeroPage"),
    Opcode(105, "ADC", 2, 2, "Immediate"),
    Opcode(109, "ADC", 3, 4, "Absolute"),
    Opcode(113, "ADC", 2, 5, "Indirect_Y"),
    Opcode(117, "ADC", 2, 4, "ZeroPage_X"),
    Opcode(121, "ADC", 3, 4, "Absolute_Y"),
    Opcode(125, "ADC", 3, 4, "Absolute_X"),
    Opcode(129, "STA", 2, 6, "Indirect_X"),
    Opcode(133, "STA", 2, 3, "ZeroPage"),
    Opcode(141, "STA", 3, 4, "Absolute"),
    Opcode(145, "STA", 2, 6, "Indirect_Y"),
    Opcode(149, "STA", 2, 4, "ZeroPage_X"),
    Opcode(153, "STA", 3, 5, "Absolute_Y"),
    Opcode(157, "STA", 3, 5, "Absolute_X"),
    Opcode(161, "LDA", 2, 6, "Indirect_X"),
    Opcode(165, "LDA", 2, 3, "ZeroPage"),
    Opcode(169, "LDA", 2, 2, "Immediate"),
    Opcode(173, "LDA", 3, 4, "Absolute"),
    Opcode(177, "LDA", 2, 5, "Indirect_Y"),
    Opcode(181, "LDA", 2, 4, "ZeroPage_X"),
    Opcode(185, "LDA", 3, 4, "Absolute_Y"),
    Opcode(189, "LDA", 3, 4, "Absolute_X"),
    Opcode(162, "LDX", 2, 2, "Immediate"),
    Opcode(166, "LDX", 2, 3, "ZeroPage"),
    Opcode(174, "LDX", 3, 4, "Absolute"),
    Opcode(182, "LDX", 2, 4, "ZeroPage_Y"),
    Opcode(190, "LDX", 3, 4, "Absolute_Y"),
    Opcode(160, "LDY", 2, 2, "Immediate"),
    Opcode(164, "LDY", 2, 3, "ZeroPage"),
    Opcode(180, "LDY", 2, 4, "ZeroPage_X"),
    Opcode(172, "LDY", 3, 4, "Absolute"),
    Opcode(188, "LDY", 3, 4, "Absolute_X"),
    Opcode(225, "SBC", 2, 6, "Indirect_X"),
    Opcode(229, "SBC", 2, 3, "ZeroPage"),
    Opcode(233, "SBC", 2, 2, "Immediate"),
    Opcode(235, "SBC", 2, 2, "Immediate"),
    Opcode(237, "SBC", 3, 4, "Absolute"),
    Opcode(241, "SBC", 2, 5, "Indirect_Y"),
    Opcode(245, "SBC", 2, 4, "ZeroPage_X"),
    Opcode(249, "SBC", 3, 4, "Absolute_Y"),
    Opcode(253, "SBC", 3, 4, "Absolute_X"),
    Opcode( 41, "AND", 2, 2, "Immediate"),
    Opcode( 37, "AND", 2, 3, "ZeroPage"),
    Opcode( 53, "AND", 2, 4, "ZeroPage_X"),
    Opcode( 45, "AND", 3, 4, "Absolute"),
    Opcode( 61, "AND", 3, 4, "Absolute_X"),
    Opcode( 57, "AND", 3, 4, "Absolute_Y"),
    Opcode( 33, "AND", 2, 6, "Indirect_X"),
    Opcode( 49, "AND", 2, 5, "Indirect_Y"),
    Opcode( 10, "ASL", 1, 2, "NoneAddressing"),
    Opcode(  6, "ASL", 2, 5, "ZeroPage"),
    Opcode( 22, "ASL", 2, 6, "ZeroPage_X"),
    Opcode( 14, "ASL", 3, 6, "Absolute"),
    Opcode( 30, "ASL", 3, 7, "Absolute_X"),
    Opcode( 42, "ROL", 1, 2, "NoneAddressing"),
    Opcode( 38, "ROL", 2, 5, "ZeroPage"),
    Opcode( 54, "ROL", 2, 6, "ZeroPage_X"),
    Opcode( 46, "ROL", 3, 6, "Absolute"),
    Opcode( 62, "ROL", 3, 7, "Absolute_X"),
    Opcode(106, "ROR", 1, 2, "NoneAddressing"),
    Opcode(102, "ROR", 2, 5, "ZeroPage"),
    Opcode(118, "ROR", 2, 6, "ZeroPage_X"),
    Opcode(110, "ROR", 3, 6, "Absolute"),
    Opcode(126, "ROR", 3, 7, "Absolute_X"),
    Opcode(193, "CMP", 2, 6, "Indirect_X"),
    Opcode(197, "CMP", 2, 3, "ZeroPage"),
    Opcode(201, "CMP", 2, 2, "Immediate"),
    Opcode(205, "CMP", 3, 4, "Absolute"),
    Opcode(209, "CMP", 2, 5, "Indirect_Y"),
    Opcode(213, "CMP", 2, 4, "ZeroPage_X"),
    Opcode(217, "CMP", 3, 4, "Absolute_Y"),
    Opcode(221, "CMP", 3, 4, "Absolute_X"),
    Opcode(224, "CPX", 2, 2, "Immediate"),
    Opcode(228, "CPX", 2, 3, "ZeroPage"),
    Opcode(236, "CPX", 3, 4, "Absolute"),
    Opcode(192, "CPY", 2, 2, "Immediate"),
    Opcode(196, "CPY", 2, 3, "ZeroPage"),
    Opcode(204, "CPY", 3, 4, "Absolute"),
    Opcode( 16, "BPL", 2, 2, "NoneAddressing"),
    Opcode( 48, "BMI", 2, 2, "NoneAddressing"),
    Opcode( 80, "BVC", 2, 2, "NoneAddressing"),
    Opcode(112, "BVS", 2, 2, "NoneAddressing"),
    Opcode(144, "BCC", 2, 2, "NoneAddressing"),
    Opcode(176, "BCS", 2, 2, "NoneAddressing"),
    Opcode(208, "BNE", 2, 2, "NoneAddressing"),
    Opcode(240, "BEQ", 2, 2, "NoneAddressing"),
    Opcode( 74, "LSR", 1, 2, "NoneAddressing"),
    Opcode( 70, "LSR", 2, 5, "ZeroPage"),
    Opcode( 86, "LSR", 2, 6, "ZeroPage_X"),
    Opcode( 78, "LSR", 3, 6, "Absolute"),
    Opcode( 94, "LSR", 3, 7, "Absolute_X"),
    Opcode(230, "INC", 2, 5, "ZeroPage"),
    Opcode(246, "INC", 2, 6, "ZeroPage_X"),
    Opcode(238, "INC", 3, 6, "Absolute"),
    Opcode(254, "INC", 3, 7, "Absolute_X"),
    Opcode( 36, "BIT", 2, 3, "ZeroPage"),
    Opcode( 44, "BIT", 3, 4, "Absolute"),
    Opcode( 26, "NOP", 1, 2, "NoneAddressing"),
    Opcode( 58, "NOP", 1, 2, "NoneAddressing"),
    Opcode( 90, "NOP", 1, 2, "NoneAddressing"),
    Opcode(122, "NOP", 1, 2, "NoneAddressing"),
    Opcode(218, "NOP", 1, 2, "NoneAddressing"),
    Opcode(234, "NOP", 1, 2, "NoneAddressing"),
    Opcode(250, "NOP", 1, 2, "NoneAddressing"),
    Opcode(  4, "DOP", 2, 3, "ZeroPage"),
    Opcode( 20, "DOP", 2, 4, "ZeroPage_X"),
    Opcode( 52, "DOP", 2, 4, "ZeroPage_X"),
    Opcode( 68, "DOP", 2, 3, "ZeroPage"),
    Opcode( 84, "DOP", 2, 4, "ZeroPage_X"),
    Opcode(100, "DOP", 2, 3, "ZeroPage"),
    Opcode(116, "DOP", 2, 4, "ZeroPage_X"),
    Opcode(128, "DOP", 2, 2, "Immediate"),
    Opcode(130, "DOP", 2, 2, "Immediate"),
    Opcode(137, "DOP", 2, 2, "Immediate"),
    Opcode(194, "DOP", 2, 2, "Immediate"),
    Opcode(212, "DOP", 2, 4, "ZeroPage_X"),
    Opcode(226, "DOP", 2, 2, "Immediate"),
    Opcode(244, "DOP", 2, 4, "ZeroPage_X"),
    Opcode( 12, "TOP", 3, 4, "Absolute"),
    Opcode( 28, "TOP", 3, 4, "Absolute_X"),
    Opcode( 60, "TOP", 3, 4, "Absolute_X"),
    Opcode( 92, "TOP", 3, 4, "Absolute_X"),
    Opcode(124, "TOP", 3, 4, "Absolute_X"),
    Opcode(220, "TOP", 3, 4, "Absolute_X"),
    Opcode(252, "TOP", 3, 4, "Absolute_X"),
    Opcode( 76, "JMP", 3, 3, "Absolute"),
    Opcode(108, "JMP", 3, 5, "NoneAddressing"),
    Opcode(198, "DEC", 2, 5, "ZeroPage"),
    Opcode(214, "DEC", 2, 6, "ZeroPage_X"),
    Opcode(206, "DEC", 3, 6, "Absolute"),
    Opcode(222, "DEC", 3, 7, "Absolute_X"),
    Opcode(134, "STX", 2, 3, "ZeroPage"),
    Opcode(150, "STX", 2, 4, "ZeroPage_Y"),
    Opcode(142, "STX", 3, 4, "Absolute"),
    Opcode(132, "STY", 2, 3, "ZeroPage"),
    Opcode(148, "STY", 2, 4, "ZeroPage_X"),
    Opcode(140, "STY", 3, 4, "Absolute"),
    Opcode(  1, "ORA", 2, 6, "Indirect_X"),
    Opcode(  5, "ORA", 2, 3, "ZeroPage"),
    Opcode(  9, "ORA", 2, 2, "Immediate"),
    Opcode( 13, "ORA", 3, 4, "Absolute"),
    Opcode( 17, "ORA", 2, 5, "Indirect_Y"),
    Opcode( 21, "ORA", 2, 4, "ZeroPage_X"),
    Opcode( 25, "ORA", 3, 4, "Absolute_Y"),
    Opcode( 29, "ORA", 3, 4, "Absolute_X"),
    Opcode( 65, "EOR", 2, 6, "Indirect_X"),
    Opcode( 69, "EOR", 2, 3, "ZeroPage"),
    Opcode( 73, "EOR", 2, 2, "Immediate"),
    Opcode( 77, "EOR", 3, 4, "Absolute"),
    Opcode( 81, "EOR", 2, 5, "Indirect_Y"),
    Opcode( 85, "EOR", 2, 4, "ZeroPage_X"),
    Opcode( 89, "EOR", 3, 4, "Absolute_Y"),
    Opcode( 93, "EOR", 3, 4, "Absolute_X"),
    Opcode(163, "LAX", 2, 6, "Indirect_X"),
    Opcode(167, "LAX", 2, 3, "ZeroPage"),
    Opcode(175, "LAX", 3, 4, "Absolute"),
    Opcode(179, "LAX", 2, 5, "Indirect_Y"),
    Opcode(183, "LAX", 2, 4, "ZeroPage_Y"),
    Opcode(191, "LAX", 3, 4, "Absolute_Y"),
    Opcode(131, "AAX", 2, 6, "Indirect_X"),
    Opcode(135, "AAX", 2, 3, "ZeroPage"),
    Opcode(143, "AAX", 3, 4, "Absolute"),
    Opcode(151, "AAX", 2, 4, "ZeroPage_Y"),
    Opcode(195, "DCP", 2, 8, "Indirect_X"),
    Opcode(199, "DCP", 2, 5, "ZeroPage"),
    Opcode(207, "DCP", 3, 6, "Absolute"),
    Opcode(211, "DCP", 2, 8, "Indirect_Y"),
    Opcode(215, "DCP", 2, 6, "ZeroPage_X"),
    Opcode(219, "DCP", 3, 7, "Absolute_Y"),
    Opcode(223, "DCP", 3, 7, "Absolute_X"),
    Opcode(227, "ISB", 2, 8, "Indirect_X"),
    Opcode(231, "ISB", 2, 5, "ZeroPage"),
    Opcode(239, "ISB", 3, 6, "Absolute"),
    Opcode(243, "ISB", 2, 8, "Indirect_Y"),
    Opcode(247, "ISB", 2, 6, "ZeroPage_X"),
    Opcode(251, "ISB", 3, 7, "Absolute_Y"),
    Opcode(255, "ISB", 3, 7, "Absolute_X"),
    Opcode(  3, "SLO", 2, 8, "Indirect_X"),
    Opcode(  7, "SLO", 2, 5, "ZeroPage"),
    Opcode( 15, "SLO", 3, 6, "Absolute"),
    Opcode( 19, "SLO", 2, 8, "Indirect_Y"),
    Opcode( 23, "SLO", 2, 6, "ZeroPage_X"),
    Opcode( 27, "SLO", 3, 7, "Absolute_Y"),
    Opcode( 31, "SLO", 3, 7, "Absolute_X"),
    Opcode( 35, "RLA", 2, 8, "Indirect_X"),
    Opcode( 39, "RLA", 2, 5, "ZeroPage"),
    Opcode( 47, "RLA", 3, 6, "Absolute"),
    Opcode( 51, "RLA", 2, 8, "Indirect_Y"),
    Opcode( 55, "RLA", 2, 6, "ZeroPage_X"),
    Opcode( 59, "RLA", 3, 7, "Absolute_Y"),
    Opcode( 63, "RLA", 3, 7, "Absolute_X"),
    Opcode( 67, "SRE", 2, 8, "Indirect_X"),
    Opcode( 71, "SRE", 2, 5, "ZeroPage"),
    Opcode( 79, "SRE", 3, 6, "Absolute"),
    Opcode( 83, "SRE", 2, 8, "Indirect_Y"),
    Opcode( 87, "SRE", 2, 6, "ZeroPage_X"),
    Opcode( 91, "SRE", 3, 7, "Absolute_Y"),
    Opcode( 95, "SRE", 3, 7, "Absolute_X"),
    Opcode( 99, "RRA", 2, 8, "Indirect_X"),
    Opcode(103, "RRA", 2, 5, "ZeroPage"),
    Opcode(111, "RRA", 3, 6, "Absolute"),
    Opcode(115, "RRA", 2, 8, "Indirect_Y"),
    Opcode(119, "RRA", 2, 6, "ZeroPage_X"),
    Opcode(123, "RRA", 3, 7, "Absolute_Y"),
    Opcode(127, "RRA", 3, 7, "Absolute_X")
    >>

\* a map that answers a byte missing from the table with a one-byte NOP
OPCODES_MAP_total ==
    [c \in Byte |->
        IF \E i \in DOMAIN CPU_OPS_CODES : CPU_OPS_CODES[i].code = c
        THEN LET last == CHOOSE i \in DOMAIN CPU_OPS_CODES :
                             /\ CPU_OPS_CODES[i].code = c
                             /\ \A j \in DOMAIN CPU_OPS_CODES :
                                    CPU_OPS_CODES[j].code = c => j <= i
             IN CPU_OPS_CODES[last]
        ELSE Opcode(c, "NOP", 1, 2, "NoneAddressing")]

\* HashMap built by inserting the table in order: a later entry wins
OPCODES_MAP ==
    [c \in {CPU_OPS_CODES[i].code : i \in DOMAIN CPU_OPS_CODES} |->
        LET last == CHOOSE i \in DOMAIN CPU_OPS_CODES :
                        /\ CPU_OPS_CODES[i].code = c
                        /\ \A j \in DOMAIN CPU_OPS_CODES :
                               CPU_OPS_CODES[j].code = c => j <= i
        IN CPU_OPS_CODES[last]]

(***************************************************************************)
(* State                                                                   *)
(***************************************************************************)
VARIABLES
    cpu,              \* the Cpu struct, with the Bus it owns
    loc,              \* position of the caller / of the run loop
    overflow_checks,  \* build profile: TRUE when integer overflow panics
    ncalls,           \* number of public operations invoked so far
    boot,             \* last program loaded and what was called since
    last_op,          \* the public operation invoked last
    cb_calls,         \* number of observer invocations in the current run
    cb_pc,            \* program counter seen by the last observer invocation
    fetches,          \* number of opcode fetches in the current run
    fetch_pc,         \* address of the last opcode fetch
    arg,              \* inputs of the operation under test
    ret               \* value returned by the last helper call

vars == <<cpu, loc, overflow_checks, ncalls, boot, last_op, cb_calls, cb_pc, fetches, fetch_pc, arg, ret>>

STACK == 256

STACK_RESET == 253

(***************************************************************************)
(* Bus: CPU RAM, PPU register window, cartridge program memory             *)
(***************************************************************************)
RAM_MIRRORS_END == 8191

PPU_REGISTERS_MIRRORS_END == 16383

PRG_ROM_START == 32768

\* size of the cartridge's program memory: one 16 KiB bank or two
prg_rom_len(bus) == IF bus.prg_half THEN 16384 ELSE 32768

\* the storage cell an address resolves to (mirroring folded out)
bus_decode(bus, addr) ==
    IF addr <= RAM_MIRRORS_END THEN addr % 2048
    ELSE IF addr <= PPU_REGISTERS_MIRRORS_END THEN 8192 + (addr % 8)
    ELSE IF addr >= PRG_ROM_START
         THEN PRG_ROM_START + ((addr - PRG_ROM_START) % prg_rom_len(bus))
    ELSE addr

\* addresses that resolve to no storage: reads yield 0, writes are ignored
bus_ignored(addr) == addr > PPU_REGISTERS_MIRRORS_END /\ addr < PRG_ROM_START

EmptyMem == [k \in {} |-> 0]

bus_mem_read(bus, addr) ==
    IF bus_ignored(addr) THEN 0
    ELSE IF bus_decode(bus, addr) \in DOMAIN bus.mem THEN bus.mem[bus_decode(bus, addr)]
    ELSE 0

bus_mem_write(bus, addr, data) ==
    IF bus_ignored(addr) THEN bus
    ELSE [bus EXCEPT !.mem = (bus_decode(bus, addr) :> data) @@ @]

Bus_new(image, half, nmi) ==
    [mem |-> image, prg_half |-> half, nmi_interrupt |-> nmi, cycles |-> 0]

(***************************************************************************)
(* Mem trait                                                               *)
(***************************************************************************)
mem_read(c, addr) == bus_mem_read(c.bus, addr)

mem_write(c, addr, data) == [c EXCEPT !.bus = bus_mem_write(@, addr, data)]

\* `pos + 1` is a plain u16 addition: it overflows at pos = 0xFFFF
u16_plus_one_overflows(pos) == pos + 1 > 65535

mem_read_u16(c, pos) ==
    LET lo == mem_read(c, pos)
        hi == mem_read(c, (pos + 1) % 65536)
    IN BitOr(hi * 256, lo)

\* mem_write_u16 storing the high byte first
mem_write_u16_big_endian(c, pos, data) ==
    LET hi == as_u8(data \div 256)
        lo == as_u8(BitAnd(data, 255))
    IN mem_write(mem_write(c, pos, hi), (pos + 1) % 65536, lo)

mem_write_u16(c, pos, data) ==
    LET hi == as_u8(data \div 256)
        lo == as_u8(BitAnd(data, 255))
    IN mem_write(mem_write(c, pos, lo), (pos + 1) % 65536, hi)

(***************************************************************************)
(* Cpu                                                                     *)
(***************************************************************************)
Cpu_new(bus) ==
    [ status          |-> from_bits_truncate(36),
      stack_pointer   |-> STACK_RESET,
      register_a      |-> 0,
      register_x      |-> 0,
      register_y      |-> 0,
      program_counter |-> 0,
      bus             |-> bus ]

\* get_operand_address whose indexed zero-page sums are not reduced to a byte
get_operand_address_unwrapped(c, mode) ==
    CASE mode = "ZeroPage_X" -> mem_read(c, c.program_counter) + c.register_x
      [] mode = "ZeroPage_Y" -> mem_read(c, c.program_counter) + c.register_y
      [] mode = "Indirect_X" ->
            LET ptr == mem_read(c, c.program_counter) + c.register_x
                lo  == mem_read(c, ptr)
                hi  == mem_read(c, ptr + 1)
            IN BitOr(hi * 256, lo)
      [] OTHER -> -1

get_operand_address(c, mode) ==
    CASE mode = "Immediate"  -> c.program_counter
      [] mode = "ZeroPage"   -> mem_read(c, c.program_counter)
      [] mode = "Absolute"   -> mem_read_u16(c, c.program_counter)
      [] mode = "ZeroPage_X" ->
            wrapping_add_u8(mem_read(c, c.program_counter), c.register_x)
      [] mode = "ZeroPage_Y" ->
            wrapping_add_u8(mem_read(c, c.program_counter), c.register_y)
      [] mode = "Absolute_X" ->
            wrapping_add_u16(mem_read_u16(c, c.program_counter), c.register_x)
      [] mode = "Absolute_Y" ->
            wrapping_add_u16(mem_read_u16(c, c.program_counter), c.register_y)
      [] mode = "Indirect_X" ->
            LET base == mem_read(c, c.program_counter)
                ptr  == wrapping_add_u8(base, c.register_x)
                lo   == mem_read(c, ptr)
                hi   == mem_read(c, wrapping_add_u8(ptr, 1))
            IN BitOr(hi * 256, lo)
      [] mode = "Indirect_Y" ->
            LET base == mem_read(c, c.program_counter)
                lo   == mem_read(c, base)
                hi   == mem_read(c, wrapping_add_u8(base, 1))
                deref_base == BitOr(hi * 256, lo)
            IN wrapping_add_u16(deref_base, c.register_y)
      [] OTHER -> -1

\* get_operand_address aborts: unsupported mode, or overflow in mem_read_u16
get_operand_address_panics(c, mode) ==
    \/ mode = "NoneAddressing"
    \/ /\ mode \in {"Absolute", "Absolute_X", "Absolute_Y"}
       /\ overflow_checks
       /\ u16_plus_one_overflows(c.program_counter)

\* an address resolved at the program counter, whatever addr is
get_absolute_address_at_counter(c, mode, addr) == get_operand_address(c, mode)

get_absolute_address(c, mode, addr) ==
    CASE mode = "ZeroPage"   -> mem_read(c, addr)
      [] mode = "Absolute"   -> mem_read_u16(c, addr)
      [] mode = "ZeroPage_X" -> wrapping_add_u8(mem_read(c, addr), c.register_x)
      [] mode = "ZeroPage_Y" -> wrapping_add_u8(mem_read(c, addr), c.register_y)
      [] mode = "Absolute_X" ->
            wrapping_add_u16(mem_read_u16(c, addr), c.register_x)
      [] mode = "Absolute_Y" ->
            wrapping_add_u16(mem_read_u16(c, addr), c.register_y)
      [] mode = "Indirect_X" ->
            LET base == mem_read(c, addr)
                ptr  == wrapping_add_u8(base, c.register_x)
                lo   == mem_read(c, ptr)
                hi   == mem_read(c, wrapping_add_u8(ptr, 1))
            IN BitOr(hi * 256, lo)
      [] mode = "Indirect_Y" ->
            LET base == mem_read(c, addr)
                lo   == mem_read(c, base)
                hi   == mem_read(c, wrapping_add_u8(base, 1))
                deref_base == BitOr(hi * 256, lo)
            IN wrapping_add_u16(deref_base, c.register_y)
      [] OTHER -> -1

\* get_absolute_address aborts: Immediate or NoneAddressing, or overflow in
\* mem_read_u16
get_absolute_address_panics(c, mode, addr) ==
    \/ mode \in {"Immediate", "NoneAddressing"}
    \/ /\ mode \in {"Absolute", "Absolute_X", "Absolute_Y"}
       /\ overflow_checks
       /\ u16_plus_one_overflows(addr)

\* update_zero_and_negative_flag that only ever inserts the two flags
update_zero_and_negative_flag_insert_only(c, target_register) ==
    LET s1 == IF target_register = 0 THEN insert(c.status, ZERO)
              ELSE c.status
        s2 == IF BitAnd(target_register, 128) # 0 THEN insert(s1, NEGATIVE)
              ELSE s1
    IN [c EXCEPT !.status = s2]

update_zero_and_negative_flag(c, target_register) ==
    LET s1 == IF target_register = 0 THEN insert(c.status, ZERO)
              ELSE remove(c.status, ZERO)
        s2 == IF BitAnd(target_register, 128) # 0 THEN insert(s1, NEGATIVE)
              ELSE remove(s1, NEGATIVE)
    IN [c EXCEPT !.status = s2]

reset(c) ==
    [c EXCEPT !.register_a = 0,
              !.register_x = 0,
              !.status = from_bits_truncate(36),
              !.program_counter = mem_read_u16(c, 65532)]

\* number of loop iterations of load: `program.len() as u16`
load_count(program) == Len(program) % 65536

\* the loop index at which `0x8600 + i` overflows u16, if it is reached
load_overflows(program) == 34304 + (load_count(program) - 1) > 65535

\* the address written by loop index i: `0x8600 + i`
load_addr(i) == (34304 + i) % 65536

\* the addresses that resolve to storage cell k
bus_aliases(bus, k) ==
    IF k <= RAM_MIRRORS_END THEN {k + 2048 * m : m \in 0..3}
    ELSE IF k <= PPU_REGISTERS_MIRRORS_END THEN {k + 8 * m : m \in 0..1023}
    ELSE IF k >= PRG_ROM_START
         THEN {a \in {k + prg_rom_len(bus) * m : m \in 0..1} : a <= 65535}
    ELSE {k}

\* the loop indices below n that write storage cell k
load_indices(bus, k, n) ==
    {i \in {(a - 34304) % 65536 : a \in bus_aliases(bus, k)} : i < n}

Max(S) == CHOOSE x \in S : \A y \in S : y <= x

\* the first n iterations of the loop of load: it writes program[i] at
\* 0x8600 + i for i = 0, 1, ..; the memory it leaves holds, in every cell
\* written, the byte of the last write to it
load_loop(c, program, n) ==
    LET written == {bus_decode(c.bus, load_addr(i)) :
                        i \in {j \in 0..(n - 1) : ~bus_ignored(load_addr(j))}}
        copied  == [k \in written |-> program[Max(load_indices(c.bus, k, n)) + 1]]
    IN [c EXCEPT !.bus.mem = copied @@ @]

\* the whole loop, then `self.mem_write_u16(0xFFFC, 0x8600)`
load(c, program) ==
    mem_write_u16(load_loop(c, program, load_count(program)), 65532, 34304)

\* what load leaves when `0x8600 + i` overflows: the bytes written up to
\* 0xFFFF, and no reset vector
load_abort(c, program) == load_loop(c, program, 65536 - 34304)

\* stack_pop reading before the increment
stack_pop_read_first(c) ==
    LET sp == wrapping_add_u8(c.stack_pointer, 1)
    IN [cpu |-> [c EXCEPT !.stack_pointer = sp],
        val |-> mem_read(c, STACK + c.stack_pointer)]

stack_pop(c) ==
    LET sp == wrapping_add_u8(c.stack_pointer, 1)
    IN [cpu |-> [c EXCEPT !.stack_pointer = sp],
        val |-> mem_read(c, STACK + sp)]

\* stack_push decrementing before the write
stack_push_decrement_first(c, data) ==
    LET sp == wrapping_sub_u8(c.stack_pointer, 1)
    IN mem_write([c EXCEPT !.stack_pointer = sp], STACK + sp, data)

stack_push(c, data) ==
    [mem_write(c, STACK + c.stack_pointer, data)
        EXCEPT !.stack_pointer = wrapping_sub_u8(c.stack_pointer, 1)]

stack_push_u16(c, data) ==
    LET hi == as_u8(data \div 256)
        lo == as_u8(BitAnd(data, 255))
    IN stack_push(stack_push(c, hi), lo)

stack_pop_u16(c) ==
    LET p1 == stack_pop(c)
        p2 == stack_pop(p1.cpu)
    IN [cpu |-> p2.cpu, val |-> BitOr(p2.val * 256, p1.val)]

(***************************************************************************)
(* Instruction handlers                                                    *)
(***************************************************************************)
\* value-returning handlers yield the new Cpu together with the value
Out(c, v) == [cpu |-> c, val |-> v]

lda(c, mode) ==
    LET value == mem_read(c, get_operand_address(c, mode))
        c1    == [c EXCEPT !.register_a = value]
    IN update_zero_and_negative_flag(c1, c1.register_a)

ldx(c, mode) ==
    LET value == mem_read(c, get_operand_address(c, mode))
        c1    == [c EXCEPT !.register_x = value]
    IN update_zero_and_negative_flag(c1, c1.register_a)

ldy(c, mode) ==
    LET value == mem_read(c, get_operand_address(c, mode))
        c1    == [c EXCEPT !.register_y = value]
    IN update_zero_and_negative_flag(c1, c1.register_a)

sta(c, mode) == mem_write(c, get_operand_address(c, mode), c.register_a)

stx(c, mode) == mem_write(c, get_operand_address(c, mode), c.register_x)

sty(c, mode) == mem_write(c, get_operand_address(c, mode), c.register_y)

tax(c) ==
    LET c1 == [c EXCEPT !.register_x = c.register_a]
    IN update_zero_and_negative_flag(c1, c1.register_x)

tay(c) ==
    LET c1 == [c EXCEPT !.register_y = c.register_a]
    IN update_zero_and_negative_flag(c1, c1.register_y)

txa(c) ==
    LET c1 == [c EXCEPT !.register_a = c.register_x]
    IN update_zero_and_negative_flag(c1, c1.register_a)

tya(c) ==
    LET c1 == [c EXCEPT !.register_a = c.register_y]
    IN update_zero_and_negative_flag(c1, c1.register_a)

\* inx with the increment applied twice
inx_twice(c) ==
    LET c1 == [c EXCEPT !.register_x = wrapping_add_u8(c.register_x, 2)]
    IN update_zero_and_negative_flag(c1, c1.register_x)

inx(c) ==
    LET c1 == [c EXCEPT !.register_x = wrapping_add_u8(c.register_x, 1)]
    IN update_zero_and_negative_flag(c1, c1.register_x)

iny(c) ==
    LET c1 == [c EXCEPT !.register_y = wrapping_add_u8(c.register_y, 1)]
    IN update_zero_and_negative_flag(c1, c1.register_y)

dex(c) ==
    LET c1 == [c EXCEPT !.register_x = wrapping_sub_u8(c.register_x, 1)]
    IN update_zero_and_negative_flag(c1, c1.register_x)

dey(c) ==
    LET c1 == [c EXCEPT !.register_y = wrapping_sub_u8(c.register_y, 1)]
    IN update_zero_and_negative_flag(c1, c1.register_y)

set_register_a(c, value) ==
    LET c1 == [c EXCEPT !.register_a = value]
    IN update_zero_and_negative_flag(c1, c1.register_a)

\* add_to_register_a with the Overflow test after the accumulator is stored
add_to_register_a_overflow_late(c, data) ==
    LET sum    == c.register_a + data + (IF contains(c.status, CARRY) THEN 1 ELSE 0)
        carry  == sum > 255
        s1     == IF carry THEN insert(c.status, CARRY) ELSE remove(c.status, CARRY)
        result == as_u8(sum)
        c1     == set_register_a([c EXCEPT !.status = s1], result)
    IN [c1 EXCEPT !.status =
            IF BitAnd(BitAnd(BitXor(data, result), BitXor(result, c1.register_a)), 128) # 0
            THEN insert(@, OVERFLOW)
            ELSE remove(@, OVERFLOW)]

\* add_to_register_a with the carry test on the truncated sum
add_to_register_a_carry8(c, data) ==
    LET sum    == c.register_a + data + (IF contains(c.status, CARRY) THEN 1 ELSE 0)
        result == as_u8(sum)
        carry  == result > 255
        s1     == IF carry THEN insert(c.status, CARRY) ELSE remove(c.status, CARRY)
        s2     == IF BitAnd(BitAnd(BitXor(data, result), BitXor(result, c.register_a)), 128) # 0
                  THEN insert(s1, OVERFLOW)
                  ELSE remove(s1, OVERFLOW)
    IN set_register_a([c EXCEPT !.status = s2], result)

add_to_register_a(c, data) ==
    LET sum    == c.register_a + data + (IF contains(c.status, CARRY) THEN 1 ELSE 0)
        carry  == sum > 255
        s1     == IF carry THEN insert(c.status, CARRY) ELSE remove(c.status, CARRY)
        result == as_u8(sum)
        s2     == IF BitAnd(BitAnd(BitXor(data, result), BitXor(result, c.register_a)), 128) # 0
                  THEN insert(s1, OVERFLOW)
                  ELSE remove(s1, OVERFLOW)
    IN set_register_a([c EXCEPT !.status = s2], result)

adc(c, mode) ==
    add_to_register_a(c, mem_read(c, get_operand_address(c, mode)))

\* the operand transformation without the `wrapping_sub(1)`
negate_only(data) == as_u8(wrapping_neg_i8(as_i8(data)))

\* ((data as i8).wrapping_neg().wrapping_sub(1)) as u8
negate_minus_one(data) == as_u8(wrapping_sub_i8(wrapping_neg_i8(as_i8(data)), 1))

\* sbc that never borrows: the carry-in taken as set
sbc_without_borrow(c, mode) ==
    add_to_register_a([c EXCEPT !.status = insert(@, CARRY)],
                      negate_minus_one(mem_read(c, get_operand_address(c, mode))))

sbc(c, mode) ==
    add_to_register_a(c, negate_minus_one(mem_read(c, get_operand_address(c, mode))))

sub_from_register_a(c, data) == add_to_register_a(c, negate_minus_one(data))

php(c) ==
    LET flags == insert(insert(c.status, BREAK), BREAK2)
    IN stack_push(c, flags)

\* plp without the removal of Break
plp_keep_break(c) ==
    LET p  == stack_pop(c)
        s1 == from_bits(p.val)
        s3 == insert(s1, BREAK2)
    IN [p.cpu EXCEPT !.status = s3]

\* from_bits(..).unwrap() aborts on None
plp_panics(c) == from_bits(stack_pop(c).val) = -1

plp(c) ==
    LET p  == stack_pop(c)
        s1 == from_bits(p.val)
        s2 == remove(s1, BREAK)
        s3 == insert(s2, BREAK2)
    IN [p.cpu EXCEPT !.status = s3]

pla(c) ==
    LET p == stack_pop(c)
    IN set_register_a(p.cpu, p.val)

and(c, mode) ==
    LET data == mem_read(c, get_operand_address(c, mode))
    IN set_register_a(c, BitAnd(data, c.register_a))

inc(c, mode) ==
    LET addr == get_operand_address(c, mode)
        data == wrapping_add_u8(mem_read(c, addr), 1)
    IN Out(update_zero_and_negative_flag(mem_write(c, addr, data), data), data)

dec(c, mode) ==
    LET addr == get_operand_address(c, mode)
        data == wrapping_sub_u8(mem_read(c, addr), 1)
    IN Out(update_zero_and_negative_flag(mem_write(c, addr, data), data), data)

carry_if(c, b) ==
    [c EXCEPT !.status = IF b THEN insert(@, CARRY) ELSE remove(@, CARRY)]

lsr(c, mode) ==
    IF mode = "NoneAddressing"
    THEN LET data == c.register_a
         IN Out(carry_if(c, BitAnd(data, 1) = 1), shr1_u8(data))
    ELSE LET addr == get_operand_address(c, mode)
             data == mem_read(c, addr)
             c1   == carry_if(c, BitAnd(data, 1) = 1)
             res  == shr1_u8(data)
             c2   == update_zero_and_negative_flag(mem_write(c1, addr, res), res)
         IN Out(set_register_a(c2, res), 0)

asl(c, mode) ==
    IF mode = "NoneAddressing"
    THEN LET data == c.register_a
         IN Out(carry_if(c, data \div 128 = 1), shl1_u8(data))
    ELSE LET addr == get_operand_address(c, mode)
             data == mem_read(c, addr)
             c1   == carry_if(c, data \div 128 = 1)
             res  == shl1_u8(data)
         IN Out(update_zero_and_negative_flag(mem_write(c1, addr, res), res), 0)

rol(c, mode) ==
    IF mode = "NoneAddressing"
    THEN LET data      == c.register_a
             old_carry == contains(c.status, CARRY)
             c1        == carry_if(c, data \div 128 = 1)
             res       == IF old_carry THEN BitOr(shl1_u8(data), 1) ELSE shl1_u8(data)
         IN Out(c1, res)
    ELSE LET addr      == get_operand_address(c, mode)
             data      == mem_read(c, addr)
             old_carry == contains(c.status, CARRY)
             c1        == carry_if(c, data \div 128 = 1)
             res       == IF old_carry THEN BitOr(shl1_u8(data), 1) ELSE shl1_u8(data)
         IN Out(update_zero_and_negative_flag(mem_write(c1, addr, res), res), 0)

ror(c, mode) ==
    IF mode = "NoneAddressing"
    THEN LET data      == c.register_a
             old_carry == contains(c.status, CARRY)
             c1        == carry_if(c, BitAnd(data, 1) = 1)
             res       == IF old_carry THEN BitOr(shr1_u8(data), 128) ELSE shr1_u8(data)
         IN Out(c1, res)
    ELSE LET addr      == get_operand_address(c, mode)
             data      == mem_read(c, addr)
             old_carry == contains(c.status, CARRY)
             c1        == carry_if(c, BitAnd(data, 1) = 1)
             res       == IF old_carry THEN BitOr(shr1_u8(data), 128) ELSE shr1_u8(data)
         IN Out(update_zero_and_negative_flag(mem_write(c1, addr, res), res), 0)

and_with_register_a(c, data) == set_register_a(c, BitAnd(data, c.register_a))

xor_with_register_a(c, data) == set_register_a(c, BitXor(data, c.register_a))

or_with_register_a(c, data) == set_register_a(c, BitOr(data, c.register_a))

sre(c, mode) ==
    LET r == lsr(c, mode)
    IN xor_with_register_a(r.cpu, r.val)

rla(c, mode) ==
    LET r == rol(c, mode)
    IN and_with_register_a(r.cpu, r.val)

rra(c, mode) ==
    LET r == ror(c, mode)
    IN add_to_register_a(r.cpu, r.val)

slo(c, mode) ==
    LET r == asl(c, mode)
    IN or_with_register_a(r.cpu, r.val)

\* `program_counter + 2 - 1` overflows when program_counter + 2 does;
\* the following mem_read_u16 overflows at program_counter = 0xFFFF
jsr_panics(c) == overflow_checks /\ c.program_counter + 2 > 65535

jsr(c) ==
    LET c1 == stack_push_u16(c, (((c.program_counter + 2) % 65536) - 1) % 65536)
        target_address == mem_read_u16(c1, c1.program_counter)
    IN [c1 EXCEPT !.program_counter = target_address]

rts_panics(c) == overflow_checks /\ stack_pop_u16(c).val + 1 > 65535

rts(c) ==
    LET p == stack_pop_u16(c)
    IN [p.cpu EXCEPT !.program_counter = (p.val + 1) % 65536]

\* from_bits(..).expect(..) aborts on None
rti_panics(c) == from_bits(stack_pop(c).val) = -1

rti(c) ==
    LET p1 == stack_pop(c)
        c1 == [p1.cpu EXCEPT !.status = from_bits(p1.val)]
        p2 == stack_pop_u16(c1)
    IN [p2.cpu EXCEPT !.program_counter = p2.val]

branch(c, condition) ==
    IF condition
    THEN LET jump      == as_i8(mem_read(c, c.program_counter))
             jump_addr == wrapping_add_u16(wrapping_add_u16(c.program_counter, 1),
                                           i8_as_u16(jump))
         IN [c EXCEPT !.program_counter = jump_addr]
    ELSE c

\* compare with Carry set only when the operand is below the register
compare_strict(c, mode, compare_with) ==
    LET data == mem_read(c, get_operand_address(c, mode))
        c1   == carry_if(c, data < compare_with)
    IN update_zero_and_negative_flag(c1, wrapping_sub_u8(compare_with, data))

compare(c, mode, compare_with) ==
    LET data == mem_read(c, get_operand_address(c, mode))
        c1   == carry_if(c, data <= compare_with)
    IN update_zero_and_negative_flag(c1, wrapping_sub_u8(compare_with, data))

bit(c, mode) ==
    LET data == mem_read(c, get_operand_address(c, mode))
        s1   == IF BitAnd(c.register_a, data) = 0 THEN insert(c.status, ZERO)
                ELSE remove(c.status, ZERO)
        s2   == set(s1, NEGATIVE, BitAnd(data, 128) > 0)
        s3   == set(s2, OVERFLOW, BitAnd(data, 64) > 0)
    IN [c EXCEPT !.status = s3]

\* jmp whose indirect form reads the pointer's high byte at pointer + 1
jmp_next_page(c, mode) ==
    IF mode \in {"NoneAddressing", "Absolute"}
    THEN LET mem_address == mem_read_u16(c, c.program_counter)
         IN [c EXCEPT !.program_counter =
                IF mode = "Absolute" THEN mem_address
                ELSE mem_read_u16(c, mem_address)]
    ELSE c

jmp_panics(c, mode) ==
    /\ mode \in {"NoneAddressing", "Absolute"}
    /\ overflow_checks
    /\ u16_plus_one_overflows(c.program_counter)

jmp(c, mode) ==
    CASE mode = "NoneAddressing" ->
            LET mem_address  == mem_read_u16(c, c.program_counter)
                indirect_ref ==
                    IF BitAnd(mem_address, 255) = 255
                    THEN LET lo == mem_read(c, mem_address)
                             hi == mem_read(c, BitAnd(mem_address, 65280))
                         IN BitOr(hi * 256, lo)
                    ELSE mem_read_u16(c, mem_address)
            IN [c EXCEPT !.program_counter = indirect_ref]
      [] mode = "Absolute" ->
            [c EXCEPT !.program_counter = mem_read_u16(c, c.program_counter)]
      [] OTHER -> c

txs(c) == [c EXCEPT !.stack_pointer = c.register_x]

tsx(c) ==
    LET c1 == [c EXCEPT !.register_x = c.stack_pointer]
    IN update_zero_and_negative_flag(c1, c1.register_x)

eor(c, mode) ==
    LET data == mem_read(c, get_operand_address(c, mode))
    IN set_register_a(c, BitXor(data, c.register_a))

ora(c, mode) ==
    LET data == mem_read(c, get_operand_address(c, mode))
    IN set_register_a(c, BitOr(data, c.register_a))

lax(c, mode) ==
    LET data == mem_read(c, get_operand_address(c, mode))
        c1   == set_register_a(c, data)
    IN [c1 EXCEPT !.register_x = c1.register_a]

isb(c, mode) ==
    LET r == inc(c, mode)
    IN sub_from_register_a(r.cpu, r.val)

dcp(c, mode) ==
    LET addr == get_operand_address(c, mode)
        data == wrapping_sub_u8(mem_read(c, addr), 1)
        c1   == mem_write(c, addr, data)
        c2   == IF data <= c1.register_a
                THEN [c1 EXCEPT !.status = insert(@, CARRY)]
                ELSE c1
    IN update_zero_and_negative_flag(c2, wrapping_sub_u8(c2.register_a, data))

aax(c, mode) ==
    mem_write(c, get_operand_address(c, mode), BitAnd(c.register_x, c.register_a))

(***************************************************************************)
(* Dispatch: the match on operation.mnemonic in run_with_callback          *)
(***************************************************************************)
\* handlers that always resolve an operand address
OperandMnemonics ==
    {"ADC", "AND", "CMP", "CPX", "CPY", "LDA", "LDX", "LDY", "SBC", "STA",
     "INC", "BIT", "DEC", "STX", "STY", "ORA", "EOR", "LAX", "AAX", "DCP", "ISB"}

\* handlers that resolve an operand address unless the mode is NoneAddressing
ShiftMnemonics == {"ASL", "LSR", "ROL", "ROR", "SLO", "RLA", "SRE", "RRA"}

\* mnemonics with a match arm; any other falls to todo!()
HandledMnemonics ==
    OperandMnemonics \cup ShiftMnemonics \cup
    {"BCC", "BCS", "BEQ", "BMI", "BNE", "BPL", "BRK", "BVC", "BVS",
     "CLC", "CLD", "CLI", "CLV", "DEX", "INX", "INY", "JSR", "PHA", "PHP",
     "PLA", "PLP", "RTS", "SEC", "SED", "SEI", "TAX", "TXA", "NOP", "JMP",
     "TXS", "TSX", "DEY", "TAY", "TYA", "RTI", "DOP", "TOP"}

execute_panics(c, operation) ==
    LET m == operation.mnemonic IN
    \/ m \notin HandledMnemonics
    \/ m \in OperandMnemonics /\ get_operand_address_panics(c, operation.mode)
    \/ /\ m \in ShiftMnemonics
       /\ operation.mode # "NoneAddressing"
       /\ get_operand_address_panics(c, operation.mode)
    \/ m = "JSR" /\ jsr_panics(c)
    \/ m = "RTS" /\ rts_panics(c)
    \/ m = "JMP" /\ jmp_panics(c, operation.mode)
    \/ m = "PLP" /\ plp_panics(c)
    \/ m = "RTI" /\ rti_panics(c)

execute(c, operation) ==
    LET m    == operation.mnemonic
        mode == operation.mode
    IN CASE m = "ADC" -> adc(c, mode)
         [] m = "AND" -> and(c, mode)
         [] m = "ASL" -> asl(c, mode).cpu
         [] m = "BCC" -> branch(c, ~contains(c.status, CARRY))
         [] m = "BCS" -> branch(c, contains(c.status, CARRY))
         [] m = "BEQ" -> branch(c, contains(c.status, ZERO))
         [] m = "BMI" -> branch(c, contains(c.status, NEGATIVE))
         [] m = "BNE" -> branch(c, ~contains(c.status, ZERO))
         [] m = "BPL" -> branch(c, ~contains(c.status, NEGATIVE))
         [] m = "BVC" -> branch(c, ~contains(c.status, OVERFLOW))
         [] m = "BVS" -> branch(c, contains(c.status, OVERFLOW))
         [] m = "CLC" -> [c EXCEPT !.status = remove(@, CARRY)]
         [] m = "CLD" -> [c EXCEPT !.status = remove(@, DECIMAL_MODE)]
         [] m = "CLI" -> [c EXCEPT !.status = remove(@, INTERRUPT_DISABLE)]
         [] m = "CLV" -> [c EXCEPT !.status = remove(@, OVERFLOW)]
         [] m = "CMP" -> compare(c, mode, c.register_a)
         [] m = "CPX" -> compare(c, mode, c.register_x)
         [] m = "CPY" -> compare(c, mode, c.register_y)
         [] m = "DEX" -> dex(c)
         [] m = "INX" -> inx(c)
         [] m = "INY" -> iny(c)
         [] m = "JSR" -> jsr(c)
         [] m = "LDA" -> lda(c, mode)
         [] m = "LDX" -> ldx(c, mode)
         [] m = "PHA" -> stack_push(c, c.register_a)
         [] m = "PHP" -> php(c)
         [] m = "PLA" -> pla(c)
         [] m = "PLP" -> plp(c)
         [] m = "ROL" -> rol(c, mode).cpu
         [] m = "ROR" -> ror(c, mode).cpu
         [] m = "RTS" -> rts(c)
         [] m = "SBC" -> sbc(c, mode)
         [] m = "SEC" -> [c EXCEPT !.status = insert(@, CARRY)]
         [] m = "SED" -> [c EXCEPT !.status = insert(@, DECIMAL_MODE)]
         [] m = "SEI" -> [c EXCEPT !.status = insert(@, INTERRUPT_DISABLE)]
         [] m = "STA" -> sta(c, mode)
         [] m = "TAX" -> tax(c)
         [] m = "TXA" -> txa(c)
         [] m = "LSR" -> lsr(c, mode).cpu
         [] m = "INC" -> inc(c, mode).cpu
         [] m = "BIT" -> bit(c, mode)
         [] m = "LDY" -> ldy(c, mode)
         [] m = "NOP" -> c
         [] m = "JMP" -> jmp(c, mode)
         [] m = "DEC" -> dec(c, mode).cpu
         [] m = "TXS" -> txs(c)
         [] m = "TSX" -> tsx(c)
         [] m = "STX" -> stx(c, mode)
         [] m = "STY" -> sty(c, mode)
         [] m = "ORA" -> ora(c, mode)
         [] m = "EOR" -> eor(c, mode)
         [] m = "DEY" -> dey(c)
         [] m = "TAY" -> tay(c)
         [] m = "TYA" -> tya(c)
         [] m = "RTI" -> rti(c)
         [] m = "DOP" -> c
         [] m = "TOP" -> c
         [] m = "LAX" -> lax(c, mode)
         [] m = "AAX" -> aax(c, mode)
         [] m = "DCP" -> dcp(c, mode)
         [] m = "ISB" -> isb(c, mode)
         [] m = "SLO" -> slo(c, mode)
         [] m = "RLA" -> rla(c, mode)
         [] m = "SRE" -> sre(c, mode)
         [] m = "RRA" -> rra(c, mode)
         [] OTHER -> c

(***************************************************************************)
(* One iteration of the loop of run_with_callback, after the callback      *)
(***************************************************************************)
\* the opcode byte the iteration reads
fetch_opcode(c) == mem_read(c, c.program_counter)

\* `self.program_counter += 1`
after_fetch(c) == [c EXCEPT !.program_counter = (@ + 1) % 65536]

\* the iteration hits `"BRK" => return`
step_returns(c) ==
    /\ fetch_opcode(c) \in DOMAIN OPCODES_MAP
    /\ OPCODES_MAP[fetch_opcode(c)].mnemonic = "BRK"

\* the advance by the whole length of the instruction
advance_by_len(c, program_counter_state, operation) ==
    IF program_counter_state = c.program_counter
    THEN [c EXCEPT !.program_counter = (@ + operation.len) % 65536]
    ELSE c

\* `self.program_counter += (operation.len - 1) as u16` when the handler
\* left the program counter where the fetch put it
advance(c, program_counter_state, operation) ==
    IF program_counter_state = c.program_counter
    THEN [c EXCEPT !.program_counter = (@ + (operation.len - 1)) % 65536]
    ELSE c

advance_overflows(c, program_counter_state, operation) ==
    /\ program_counter_state = c.program_counter
    /\ c.program_counter + (operation.len - 1) > 65535

\* the Cpu as an abort inside a handler leaves it: plp, rti and rts have
\* popped by then, the other handlers have changed nothing yet
state_at_abort(c, operation) ==
    CASE operation.mnemonic \in {"PLP", "RTI"} -> stack_pop(c).cpu
      [] operation.mnemonic = "RTS" -> stack_pop_u16(c).cpu
      [] OTHER -> c

\* the iteration aborts: overflow of the program counter, a byte that is not
\* a key of OPCODES_MAP, or an abort inside the handler
step_panics(c) ==
    \/ overflow_checks /\ c.program_counter + 1 > 65535
    \/ fetch_opcode(c) \notin DOMAIN OPCODES_MAP
    \/ /\ ~step_returns(c)
       /\ LET c1 == after_fetch(c)
              operation == OPCODES_MAP[fetch_opcode(c)]
          IN \/ execute_panics(c1, operation)
             \/ /\ overflow_checks
                /\ advance_overflows(execute(c1, operation), c1.program_counter, operation)

\* state after an iteration that neither aborts nor returns
step(c) ==
    LET c1 == after_fetch(c)
        operation == OPCODES_MAP[fetch_opcode(c)]
    IN advance(execute(c1, operation), c1.program_counter, operation)

\* the Cpu an aborting iteration leaves: untouched when the fetch's
\* `self.program_counter += 1` overflows, past the opcode when the byte is no
\* key of OPCODES_MAP or the handler aborts, and with the handler's effects
\* when the trailing advance overflows
step_abort(c) ==
    IF overflow_checks /\ c.program_counter + 1 > 65535 THEN c
    ELSE IF fetch_opcode(c) \notin DOMAIN OPCODES_MAP THEN after_fetch(c)
    ELSE LET c1 == after_fetch(c)
             operation == OPCODES_MAP[fetch_opcode(c)]
         IN IF execute_panics(c1, operation)
            THEN state_at_abort(c1, operation)
            ELSE execute(c1, operation)

(***************************************************************************)
(* Inputs and bounds                                                       *)
(***************************************************************************)
\* public operations a caller may invoke in one behaviour
MaxCalls == 3

\* loop iterations followed within one run
MaxSteps == 6

\* programs handed to load / load_and_run
Programs == <<
    <<169, 5, 170, 232, 0>>,         \* LDA #5; TAX; INX; BRK
    <<169, 255, 105, 2, 0>>,         \* LDA #$FF; ADC #2; BRK
    <<160, 7, 162, 16, 154, 0>>,     \* LDY #7; LDX #$10; TXS; BRK
    <<76, 0, 134>>,                  \* JMP $8600
    <<2>>,                           \* a byte that is not in the opcode table
    <<56, 8, 40, 0>>,                \* SEC; PHP; PLP; BRK
    <<>>,
    <<32, 4, 134, 0, 96>>,           \* JSR $8604; BRK; RTS
    <<169, 16, 72, 64>>              \* LDA #$10; PHA; RTI
    >>

ProgramIds == DOMAIN Programs

\* a program of n NOP bytes
LongProgram(n) == [i \in 1..n |-> 234]

\* lengths at which the copy reaches the storage of the reset vector:
\* 0xFFFC - 0x8600 = 0x79FC, and 0xBFFC - 0x8600 = 0x39FC when a single
\* 16 KiB program bank is mirrored
LongLengths == <<14845, 31229>>

LoadPrograms == Programs \o [i \in DOMAIN LongLengths |-> LongProgram(LongLengths[i])]

LongProgramIds == DOMAIN LoadPrograms \ ProgramIds

\* cartridge contents the bus is built with, as <<address, byte>> pairs
\* (RAM starts zeroed)
ImageVectors == <<
    <<65530, 0>>, <<65531, 144>>,    \* NMI vector   -> $9000
    <<65532, 254>>, <<65533, 255>>,  \* reset vector -> $FFFE
    <<65534, 234>>, <<65535, 234>>,  \* $FFFE: NOP; NOP
    <<36864, 64>>                    \* $9000: RTI
    >>

\* the same, with BRK as the last byte of the address space
ImageBrkAtTop == ImageVectors \o << <<65535, 0>> >>

Images == {<<>>, ImageVectors, ImageBrkAtTop}

RECURSIVE bus_with(_, _)
bus_with(bus, image) ==
    IF image = <<>> THEN bus
    ELSE bus_with(bus_mem_write(bus, Head(image)[1], Head(image)[2]), Tail(image))

NoBoot == [prog |-> 0, stage |-> "none"]

(***************************************************************************)
(* Specification Spec: a caller drives the public operations               *)
(***************************************************************************)
Init ==
    /\ overflow_checks \in BOOLEAN
    /\ \E image \in Images, half \in BOOLEAN, nmi \in BOOLEAN :
            cpu = Cpu_new(bus_with(Bus_new(EmptyMem, half, nmi), image))
    /\ loc = "idle"
    /\ last_op = "new"
    /\ ncalls = 0
    /\ boot = NoBoot
    /\ cb_calls = 0
    /\ cb_pc = 0
    /\ fetches = 0
    /\ fetch_pc = 0
    /\ arg = 0
    /\ ret = 0

CallerIdle == loc \in {"idle", "returned"} /\ ncalls < MaxCalls

\* cpu.load(program), for a program among ids
LoadOf(ids) ==
    /\ CallerIdle
    /\ \E id \in ids :
        /\ boot' = [prog |-> id, stage |-> "loaded"]
        /\ IF overflow_checks /\ load_overflows(LoadPrograms[id])
           THEN loc' = "panicked" /\ cpu' = load_abort(cpu, LoadPrograms[id])
           ELSE loc' = "idle" /\ cpu' = load(cpu, LoadPrograms[id])
    /\ ncalls' = ncalls + 1
    /\ last_op' = "load"
    /\ UNCHANGED <<overflow_checks, cb_calls, cb_pc, fetches, fetch_pc, arg, ret>>

Load == LoadOf(ProgramIds)

\* cpu.reset()
Reset ==
    /\ CallerIdle
    /\ cpu' = reset(cpu)
    /\ loc' = "idle"
    /\ boot' = IF boot.stage = "loaded" THEN [boot EXCEPT !.stage = "reset"] ELSE NoBoot
    /\ ncalls' = ncalls + 1
    /\ last_op' = "reset"
    /\ UNCHANGED <<overflow_checks, cb_calls, cb_pc, fetches, fetch_pc, arg, ret>>

\* cpu.run() / cpu.run_with_callback(observer): entry into the loop
Run ==
    /\ CallerIdle
    /\ loc' = "loop_top"
    /\ boot' = IF boot.stage = "reset" THEN [boot EXCEPT !.stage = "run"] ELSE NoBoot
    /\ ncalls' = ncalls + 1
    /\ last_op' = "run"
    /\ cb_calls' = 0
    /\ fetches' = 0
    /\ UNCHANGED <<cpu, overflow_checks, cb_pc, fetch_pc, arg, ret>>

\* cpu.load_and_run(program): load, reset, then the loop
LoadAndRun ==
    /\ CallerIdle
    /\ \E id \in ProgramIds :
        /\ boot' = [prog |-> id, stage |-> "run"]
        /\ IF overflow_checks /\ load_overflows(Programs[id])
           THEN loc' = "panicked" /\ cpu' = load_abort(cpu, Programs[id])
           ELSE loc' = "loop_top" /\ cpu' = reset(load(cpu, Programs[id]))
    /\ ncalls' = ncalls + 1
    /\ last_op' = "load_and_run"
    /\ cb_calls' = 0
    /\ fetches' = 0
    /\ UNCHANGED <<overflow_checks, cb_pc, fetch_pc, arg, ret>>

\* RunCallback with the observer skipped when the next opcode is BRK
RunCallback_SkipOnBrk ==
    /\ loc = "loop_top"
    /\ cb_calls < MaxSteps
    /\ IF fetch_opcode(cpu) = 0
       THEN UNCHANGED <<cb_calls, cb_pc>>
       ELSE cb_calls' = cb_calls + 1 /\ cb_pc' = cpu.program_counter
    /\ loc' = "fetch"
    /\ UNCHANGED <<cpu, overflow_checks, ncalls, boot, last_op, fetches, fetch_pc, arg, ret>>

\* top of the loop: `callback(self)`; the observer records what it sees
RunCallback ==
    /\ loc = "loop_top"
    /\ cb_calls < MaxSteps
    /\ cb_calls' = cb_calls + 1
    /\ cb_pc' = cpu.program_counter
    /\ loc' = "fetch"
    /\ UNCHANGED <<cpu, overflow_checks, ncalls, boot, last_op, fetches, fetch_pc, arg, ret>>

\* rest of the iteration: fetch, decode, handler, program counter advance
RunStep ==
    /\ loc = "fetch"
    /\ fetches' = fetches + 1
    /\ fetch_pc' = cpu.program_counter
    /\ IF step_panics(cpu)
       THEN loc' = "panicked" /\ cpu' = step_abort(cpu)
       ELSE IF step_returns(cpu)
       THEN loc' = "returned" /\ cpu' = after_fetch(cpu)
       ELSE loc' = "loop_top" /\ cpu' = step(cpu)
    /\ UNCHANGED <<overflow_checks, ncalls, boot, last_op, cb_calls, cb_pc, arg, ret>>

Next == Load \/ Reset \/ Run \/ LoadAndRun \/ RunCallback \/ RunStep

Spec == Init /\ [][Next]_vars

(***************************************************************************)
(* Specification SpecLoad: load and reset only, long programs included     *)
(***************************************************************************)
InitLoad ==
    /\ overflow_checks \in BOOLEAN
    /\ \E half \in BOOLEAN : cpu = Cpu_new(Bus_new(EmptyMem, half, FALSE))
    /\ loc = "idle"
    /\ last_op = "new"
    /\ ncalls = 0
    /\ boot = NoBoot
    /\ cb_calls = 0
    /\ cb_pc = 0
    /\ fetches = 0
    /\ fetch_pc = 0
    /\ arg = 0
    /\ ret = 0

\* cpu.load(program) of a long program, as the first operation on the Cpu
LoadLong == ncalls = 0 /\ LoadOf(LongProgramIds)

NextLoad == Load \/ LoadLong \/ Reset

SpecLoad == InitLoad /\ [][NextLoad]_vars

(***************************************************************************)
(* PPU control register (ppu_registers.rs) and renderer (render.rs)        *)
(***************************************************************************)
\* ControlRegister::nametable_addr
nametable_addr(ctrl) ==
    CASE BitAnd(ctrl, 3) = 0 -> 8192
      [] BitAnd(ctrl, 3) = 1 -> 9216
      [] BitAnd(ctrl, 3) = 2 -> 10240
      [] BitAnd(ctrl, 3) = 3 -> 11264

\* ControlRegister::sprt_pattern_addr
sprt_pattern_addr(ctrl) == IF BitAnd(ctrl, 8) = 0 THEN 0 ELSE 4096

\* the background bank read from the sprite bit of the control register
bknd_pattern_addr_sprite_bit(ctrl) == IF BitAnd(ctrl, 8) = 0 THEN 0 ELSE 4096

\* ControlRegister::bknd_pattern_addr
bknd_pattern_addr(ctrl) == IF BitAnd(ctrl, 16) = 0 THEN 0 ELSE 4096

\* the 64-entry colour table, indexed from 0 in the source
SYSTEM_PALLETE == <<
    <<128, 128, 128>>, <<0, 61, 166>>, <<0, 18, 176>>, <<68, 0, 150>>,
    <<161, 0, 94>>, <<199, 0, 40>>, <<186, 6, 0>>, <<140, 23, 0>>,
    <<92, 47, 0>>, <<16, 69, 0>>, <<5, 74, 0>>, <<0, 71, 46>>,
    <<0, 65, 102>>, <<0, 0, 0>>, <<5, 5, 5>>, <<5, 5, 5>>,
    <<199, 199, 199>>, <<0, 119, 255>>, <<33, 85, 255>>, <<130, 55, 250>>,
    <<235, 47, 181>>, <<255, 41, 80>>, <<255, 34, 0>>, <<214, 50, 0>>,
    <<196, 98, 0>>, <<53, 128, 0>>, <<5, 143, 0>>, <<0, 138, 85>>,
    <<0, 153, 204>>, <<33, 33, 33>>, <<9, 9, 9>>, <<9, 9, 9>>,
    <<255, 255, 255>>, <<15, 215, 255>>, <<105, 162, 255>>, <<212, 128, 255>>,
    <<255, 69, 243>>, <<255, 97, 139>>, <<255, 136, 51>>, <<255, 156, 18>>,
    <<250, 188, 32>>, <<159, 227, 14>>, <<43, 240, 53>>, <<12, 240, 164>>,
    <<5, 251, 255>>, <<94, 94, 94>>, <<13, 13, 13>>, <<13, 13, 13>>,
    <<255, 255, 255>>, <<166, 252, 255>>, <<179, 236, 255>>, <<218, 171, 235>>,
    <<255, 168, 249>>, <<255, 171, 179>>, <<255, 210, 176>>, <<255, 239, 166>>,
    <<255, 247, 156>>, <<215, 232, 149>>, <<166, 237, 175>>, <<162, 242, 218>>,
    <<153, 255, 252>>, <<221, 221, 221>>, <<17, 17, 17>>, <<17, 17, 17>>
    >>

\* a table of the PPU stored by its non-zero bytes
table_at(table, i) == IF i \in DOMAIN table THEN table[i] ELSE 0

\* the PPU state the renderer reads
NesPPU(ctrl, mirroring, scroll_x, scroll_y, vram, oam_data, palette_table, chr_rom) ==
    [ctrl |-> ctrl, mirroring |-> mirroring,
     scroll |-> [scroll_x |-> scroll_x, scroll_y |-> scroll_y],
     vram |-> vram, oam_data |-> oam_data,
     palette_table |-> palette_table, chr_rom |-> chr_rom]

\* a framebuffer position holds an RGB triple; Frame::new is all black
BlackPixel == <<0, 0, 0>>

\* Frame::set_pixel stores at positions inside the 256 x 240 frame
frame_has(x, y) == x >= 0 /\ x < 256 /\ y >= 0 /\ y < 240

\* bg_pallette: name_table is the offset of the nametable in vram, its
\* attribute table the 64 bytes from 0x3c0
bg_pallette(ppu, name_table, tile_column, tile_row) ==
    LET attr_table_idx == (tile_row \div 4) * 8 + (tile_column \div 4)
        attr_byte  == table_at(ppu.vram, name_table + 960 + attr_table_idx)
        quadrant   == <<(tile_column % 4) \div 2, (tile_row % 4) \div 2>>
        pallet_idx == CASE quadrant = <<0, 0>> -> attr_byte % 4
                        [] quadrant = <<1, 0>> -> (attr_byte \div 4) % 4
                        [] quadrant = <<0, 1>> -> (attr_byte \div 16) % 4
                        [] quadrant = <<1, 1>> -> (attr_byte \div 64) % 4
        pallete_start == 1 + pallet_idx * 4
    IN << table_at(ppu.palette_table, 0),
          table_at(ppu.palette_table, pallete_start),
          table_at(ppu.palette_table, pallete_start + 1),
          table_at(ppu.palette_table, pallete_start + 2) >>

sprite_palette(ppu, pallete_idx) ==
    LET start == 17 + pallete_idx * 4
    IN << 0,
          table_at(ppu.palette_table, start),
          table_at(ppu.palette_table, start + 1),
          table_at(ppu.palette_table, start + 2) >>

Rect(x1, y1, x2, y2) == [x1 |-> x1, y1 |-> y1, x2 |-> x2, y2 |-> y2]

\* `(1 & lower) << 1 | (1 & upper)` at column x of the loop `(0..=7).rev()`,
\* which shifts both planes right once per column from x = 7 down
plane_value(upper, lower, x) ==
    2 * ((lower \div (2 ^ (7 - x))) % 2) + ((upper \div (2 ^ (7 - x))) % 2)

\* the pattern value of column x, row y of a tile of chr_rom
tile_value(ppu, bank, tile_idx, x, y) ==
    plane_value(table_at(ppu.chr_rom, bank + tile_idx * 16 + y),
                table_at(ppu.chr_rom, bank + tile_idx * 16 + y + 8), x)

\* what a pass or a sprite leaves at a framebuffer position it does not write
NoWrite == <<>>

\* render_name_table, seen from one framebuffer position: the loop calls
\* set_pixel(shift_x + pixel_x, shift_y + pixel_y, rgb) once for each pixel
\* (pixel_x, pixel_y) of the 32 x 30 tiles that lies in view_port, so
\* position (x, y) is written from pixel (x - shift_x, y - shift_y)
render_name_table(ppu, name_table, view_port, shift_x, shift_y, x, y) ==
    LET pixel_x == x - shift_x
        pixel_y == y - shift_y
    IN IF /\ pixel_x >= 0 /\ pixel_x < 256 /\ pixel_y >= 0 /\ pixel_y < 240
          /\ pixel_x >= view_port.x1 /\ pixel_x < view_port.x2
          /\ pixel_y >= view_port.y1 /\ pixel_y < view_port.y2
          /\ frame_has(x, y)
       THEN LET tile_column == pixel_x \div 8
                tile_row    == pixel_y \div 8
                i           == tile_row * 32 + tile_column
                bank        == bknd_pattern_addr(ppu.ctrl)
                tile_idx    == table_at(ppu.vram, name_table + i)
                palette     == bg_pallette(ppu, name_table, tile_column, tile_row)
                value       == tile_value(ppu, bank, tile_idx, pixel_x % 8, pixel_y % 8)
            IN IF value = 0
               THEN SYSTEM_PALLETE[table_at(ppu.palette_table, 0) + 1]
               ELSE SYSTEM_PALLETE[palette[value + 1] + 1]
       ELSE NoWrite

\* the choice made from the base address alone, whatever the mirroring
nametables_by_address(ppu) ==
    IF nametable_addr(ppu.ctrl) \in {8192, 10240}
    THEN [main |-> 0, second |-> 1024]
    ELSE [main |-> 1024, second |-> 0]

\* the match on (mirroring, nametable_addr): offsets of main and second
\* nametable in vram
nametables(ppu) ==
    LET addr == nametable_addr(ppu.ctrl)
    IN IF \/ ppu.mirroring = "Vertical" /\ addr \in {8192, 10240}
          \/ ppu.mirroring = "Horizontal" /\ addr \in {8192, 9216}
       THEN [main |-> 0, second |-> 1024]
       ELSE [main |-> 1024, second |-> 0]

\* render fails on a mirroring other than Vertical and Horizontal
render_panics(ppu) == ppu.mirroring \notin {"Vertical", "Horizontal"}

\* `240 - scroll_y` is a usize subtraction, evaluated in the `else if` arm,
\* that is when scroll_x = 0 < scroll_y; it goes below zero from 241 on
second_shift_underflows(ppu) ==
    ppu.scroll.scroll_x = 0 /\ ppu.scroll.scroll_y > 240

\* a later write replaces an earlier one
overwrite(pixel, write) == IF write = NoWrite THEN pixel ELSE write

\* render up to the sprite loop, at one framebuffer position: the main
\* pass, then the pass of the second nametable chosen by the scroll
render_background(ppu, pixel, x, y) ==
    LET scroll_x == ppu.scroll.scroll_x
        scroll_y == ppu.scroll.scroll_y
        tables   == nametables(ppu)
        main     == overwrite(pixel,
                        render_name_table(ppu, tables.main,
                            Rect(scroll_x, scroll_y, 256, 240), -scroll_x, -scroll_y, x, y))
    IN IF scroll_x > 0
       THEN overwrite(main,
                render_name_table(ppu, tables.second,
                    Rect(0, 0, scroll_x, 240), 256 - scroll_x, 0, x, y))
       ELSE IF scroll_y > 0
       THEN overwrite(main,
                render_name_table(ppu, tables.second,
                    Rect(0, 0, 256, scroll_y), 0, 240 - scroll_y, x, y))
       ELSE main

\* one iteration of the sprite loop (OAM bytes i .. i + 3), seen from one
\* framebuffer position: the tile pixel (column, row) that the flips send to
\* (x, y), written unless its value is 0
render_sprite(ppu, i, x, y) ==
    LET tile_idx == table_at(ppu.oam_data, i + 1)
        tile_x   == table_at(ppu.oam_data, i + 3)
        tile_y   == table_at(ppu.oam_data, i)
        attrs    == table_at(ppu.oam_data, i + 2)
        flip_vertical   == (attrs \div 128) % 2 = 1
        flip_horizontal == (attrs \div 64) % 2 = 1
        palette  == sprite_palette(ppu, attrs % 4)
        bank     == sprt_pattern_addr(ppu.ctrl)
        column   == IF flip_horizontal THEN tile_x + 7 - x ELSE x - tile_x
        row      == IF flip_vertical THEN tile_y + 7 - y ELSE y - tile_y
    IN IF column \in 0..7 /\ row \in 0..7 /\ frame_has(x, y)
       THEN LET value == tile_value(ppu, bank, tile_idx, column, row)
            IN IF value = 0 THEN NoWrite
               ELSE SYSTEM_PALLETE[palette[value + 1] + 1]
       ELSE NoWrite

\* the 8 x 8 positions of the calls `set_pixel(tile_x + .., tile_y + ..)` of
\* sprite i; either flip sends the tile onto the same positions
sprite_box(ppu, i) ==
    LET tile_x == table_at(ppu.oam_data, i + 3)
        tile_y == table_at(ppu.oam_data, i)
    IN (tile_x..(tile_x + 7)) \X (tile_y..(tile_y + 7))

\* the sprite loop taken from OAM offset 0 upwards
RECURSIVE render_sprites_forward(_, _, _, _, _)
render_sprites_forward(ppu, i, pixel, x, y) ==
    IF i < 0 THEN pixel
    ELSE LET write == render_sprite(ppu, i, x, y)
         IN IF write = NoWrite
            THEN render_sprites_forward(ppu, i - 4, pixel, x, y)
            ELSE write

\* the sprite loop from OAM offset i down to 0, seen from one framebuffer
\* position: `(0..len).step_by(4).rev()`
RECURSIVE render_sprites(_, _, _, _, _)
render_sprites(ppu, i, pixel, x, y) ==
    IF i < 0 THEN pixel
    ELSE LET write == render_sprite(ppu, i, x, y)
         IN IF write = NoWrite
            THEN render_sprites(ppu, i - 4, pixel, x, y)
            ELSE render_sprites(ppu, i - 4, write, x, y)

\* the sprite loop on the followed positions of the frame: a position
\* outside the boxes of all 64 sprites receives no call
sprite_loop(ppu, frame) ==
    LET touched == UNION {sprite_box(ppu, 4 * k) : k \in 0..63} \cap DOMAIN frame
    IN [p \in touched |-> render_sprites(ppu, 252, frame[p], p[1], p[2])] @@ frame

(***************************************************************************)
(* Helper-level specifications: a Cpu in a chosen state, then the helpers  *)
(***************************************************************************)
\* byte and word values the inputs are drawn from
ByteSamples == {0, 1, 2, 15, 16, 36, 63, 64, 85, 127, 128, 129, 170, 192, 254, 255}

WordSamples == {0, 1, 255, 256, 257, 4660, 32767, 32768, 34304, 43981, 65280, 65534, 65535}

\* a Cpu on a bus with zeroed RAM, with chosen registers
CpuWith(a, status, sp, pc) ==
    [Cpu_new(Bus_new(EmptyMem, FALSE, FALSE))
        EXCEPT !.register_a = a, !.status = status,
               !.stack_pointer = sp, !.program_counter = pc]

\* what every helper-level Init fixes
UnitInit ==
    /\ overflow_checks = FALSE
    /\ last_op = "new"
    /\ ncalls = 0
    /\ boot = NoBoot
    /\ cb_calls = 0
    /\ cb_pc = 0
    /\ fetches = 0
    /\ fetch_pc = 0
    /\ ret = 0

UnitFrame == UNCHANGED <<overflow_checks, ncalls, boot, last_op, cb_calls, cb_pc, fetches, fetch_pc, arg>>

\* SpecStack: stack_push then stack_pop, stack_push_u16 then stack_pop_u16
InitStack ==
    /\ UnitInit
    /\ \E sp \in Byte :
        /\ cpu = CpuWith(0, 36, sp, 0)
        /\ \/ \E v \in ByteSamples : arg = [width |-> 8, value |-> v, sp |-> sp]
           \/ \E w \in WordSamples : arg = [width |-> 16, value |-> w, sp |-> sp]
    /\ loc = "stack_start"

StackPush ==
    /\ loc = "stack_start" /\ arg.width = 8
    /\ cpu' = stack_push(cpu, arg.value)
    /\ loc' = "pushed"
    /\ ret' = ret
    /\ UnitFrame

StackPop ==
    /\ loc = "pushed" /\ arg.width = 8
    /\ cpu' = stack_pop(cpu).cpu
    /\ ret' = stack_pop(cpu).val
    /\ loc' = "popped"
    /\ UnitFrame

StackPushU16 ==
    /\ loc = "stack_start" /\ arg.width = 16
    /\ cpu' = stack_push_u16(cpu, arg.value)
    /\ loc' = "pushed"
    /\ ret' = ret
    /\ UnitFrame

StackPopU16 ==
    /\ loc = "pushed" /\ arg.width = 16
    /\ cpu' = stack_pop_u16(cpu).cpu
    /\ ret' = stack_pop_u16(cpu).val
    /\ loc' = "popped"
    /\ UnitFrame

NextStack == StackPush \/ StackPop \/ StackPushU16 \/ StackPopU16

SpecStack == InitStack /\ [][NextStack]_vars

\* SpecFlags: php then plp, from every status byte
StackPointerSamples == {0, 1, 127, 128, 253, 254, 255}

InitFlags ==
    /\ UnitInit
    /\ \E status \in Byte, sp \in StackPointerSamples :
        /\ cpu = CpuWith(0, status, sp, 0)
        /\ arg = [status |-> status, sp |-> sp]
    /\ loc = "flags_start"

Php ==
    /\ loc = "flags_start"
    /\ cpu' = php(cpu)
    /\ loc' = "php_done"
    /\ ret' = ret
    /\ UnitFrame

Plp ==
    /\ loc = "php_done"
    /\ IF plp_panics(cpu)
       THEN loc' = "panicked" /\ cpu' = stack_pop(cpu).cpu
       ELSE loc' = "plp_done" /\ cpu' = plp(cpu)
    /\ ret' = ret
    /\ UnitFrame

NextFlags == Php \/ Plp

SpecFlags == InitFlags /\ [][NextFlags]_vars

\* SpecAdcSbc: adc then sbc of the same immediate operand, held at 0x0010
InitAdcSbc ==
    /\ UnitInit
    /\ \E a \in Byte, d \in ByteSamples, carry \in {0, 1} :
        /\ cpu = mem_write(CpuWith(a, 36 + carry, STACK_RESET, 16), 16, d)
        /\ arg = [a |-> a, d |-> d, carry |-> carry]
    /\ loc = "adc_start"

Adc ==
    /\ loc = "adc_start"
    /\ cpu' = adc(cpu, "Immediate")
    /\ ret' = IF contains(cpu'.status, CARRY) THEN 1 ELSE 0
    /\ loc' = "adc_done"
    /\ UnitFrame

Sbc ==
    /\ loc = "adc_done"
    /\ cpu' = sbc(cpu, "Immediate")
    /\ ret' = ret
    /\ loc' = "sbc_done"
    /\ UnitFrame

NextAdcSbc == Adc \/ Sbc

SpecAdcSbc == InitAdcSbc /\ [][NextAdcSbc]_vars

\* SpecZeroNegative: update_zero_and_negative_flag of every byte, from every
\* status byte
InitZeroNegative ==
    /\ UnitInit
    /\ \E status \in Byte, v \in Byte :
        /\ cpu = CpuWith(0, status, STACK_RESET, 0)
        /\ arg = [status |-> status, v |-> v]
    /\ loc = "flags_start"

UpdateZeroAndNegative ==
    /\ loc = "flags_start"
    /\ cpu' = update_zero_and_negative_flag(cpu, arg.v)
    /\ loc' = "flags_updated"
    /\ ret' = ret
    /\ UnitFrame

NextZeroNegative == UpdateZeroAndNegative

SpecZeroNegative == InitZeroNegative /\ [][NextZeroNegative]_vars

\* SpecIndirectY: get_operand_address(Indirect_Y) for every base byte.
\* Zero-page cell k holds (5k + 1) mod 256, cell 0x0100 holds 0xAA, and the
\* base byte is the operand at 0x0200
ZeroPageImage == [k \in 0..256 |-> IF k = 256 THEN 170 ELSE (5 * k + 1) % 256]

ZeroPageBus == Bus_new(ZeroPageImage, FALSE, FALSE)

InitIndirectY ==
    /\ UnitInit
    /\ \E b \in Byte, y \in ByteSamples :
        /\ cpu = [Cpu_new(bus_mem_write(ZeroPageBus, 512, b))
                      EXCEPT !.register_y = y, !.program_counter = 512]
        /\ arg = [b |-> b, y |-> y]
    /\ loc = "address_start"

ResolveIndirectY ==
    /\ loc = "address_start"
    /\ ~get_operand_address_panics(cpu, "Indirect_Y")
    /\ ret' = get_operand_address(cpu, "Indirect_Y")
    /\ loc' = "address_done"
    /\ cpu' = cpu
    /\ UnitFrame

NextIndirectY == ResolveIndirectY

SpecIndirectY == InitIndirectY /\ [][NextIndirectY]_vars

\* SpecJump: one loop iteration on JMP absolute, JMP indirect or JSR placed
\* at 0x0600, followed through fetch, handler and program counter advance;
\* ret holds the local program_counter_state
PointerSamples == {255, 528, 767, 2047, 12543, 36864, 37119}

JumpOperands == WordSamples \cup {1536, 1537, 1539}

\* bytes stored at the pointer, at pointer + 1 and at the start of its page
PointerLowBytes == ByteSamples

PointerNextBytes == {6, 80}

PointerPageBytes == {6, 64}

\* the three instruction bytes at 0x0600
JumpBus(bus, opcode, operand) ==
    bus_mem_write(bus_mem_write(bus_mem_write(bus, 1536, opcode),
                                1537, operand % 256), 1538, operand \div 256)

InitJump ==
    /\ UnitInit
    /\ \/ \E opcode \in {76, 32}, operand \in JumpOperands :
            /\ arg = [opcode |-> opcode, operand |-> operand]
            /\ cpu = [Cpu_new(JumpBus(Bus_new(EmptyMem, FALSE, FALSE), opcode, operand))
                          EXCEPT !.program_counter = 1536]
       \/ \E operand \in PointerSamples, lo \in PointerLowBytes,
              next \in PointerNextBytes, page \in PointerPageBytes :
            /\ arg = [opcode |-> 108, operand |-> operand]
            /\ cpu = [Cpu_new(bus_mem_write(bus_mem_write(bus_mem_write(
                              JumpBus(Bus_new(EmptyMem, FALSE, FALSE), 108, operand),
                              BitAnd(operand, 65280), page),
                              (operand + 1) % 65536, next),
                              operand, lo))
                          EXCEPT !.program_counter = 1536]
    /\ loc = "jump_start"

\* the opcode fetch and `self.program_counter += 1`
JumpFetch ==
    /\ loc = "jump_start"
    /\ fetch_opcode(cpu) = arg.opcode
    /\ cpu' = after_fetch(cpu)
    /\ ret' = cpu'.program_counter
    /\ loc' = "jump_fetched"
    /\ UnitFrame

\* the match arm: self.jmp(&operation.mode) or self.jsr()
JumpHandler ==
    /\ loc = "jump_fetched"
    /\ IF execute_panics(cpu, OPCODES_MAP[arg.opcode])
       THEN loc' = "panicked" /\ cpu' = cpu
       ELSE loc' = "jump_executed" /\ cpu' = execute(cpu, OPCODES_MAP[arg.opcode])
    /\ ret' = ret
    /\ UnitFrame

\* `if program_counter_state == self.program_counter { .. }`
JumpAdvance ==
    /\ loc = "jump_executed"
    /\ cpu' = advance(cpu, ret, OPCODES_MAP[arg.opcode])
    /\ loc' = "jump_done"
    /\ ret' = ret
    /\ UnitFrame

NextJump == JumpFetch \/ JumpHandler \/ JumpAdvance

SpecJump == InitJump /\ [][NextJump]_vars

\* SpecWord: mem_write_u16(pos, w) then mem_read_u16(pos), in both builds and
\* for both sizes of program memory; the addresses resolve to storage
WordAddresses == {0, 255, 2047, 8191, 8199, 16382, 32768, 49151, 65532, 65534, 65535}

InitWord ==
    /\ overflow_checks \in BOOLEAN
    /\ last_op = "new"
    /\ ncalls = 0
    /\ boot = NoBoot
    /\ cb_calls = 0
    /\ cb_pc = 0
    /\ fetches = 0
    /\ fetch_pc = 0
    /\ ret = 0
    /\ \E half \in BOOLEAN : cpu = Cpu_new(Bus_new(EmptyMem, half, FALSE))
    /\ \E pos \in WordAddresses, w \in WordSamples : arg = [pos |-> pos, w |-> w]
    /\ loc = "word_start"

\* `pos + 1` is evaluated after the low byte is stored
MemWriteU16 ==
    /\ loc = "word_start"
    /\ IF overflow_checks /\ u16_plus_one_overflows(arg.pos)
       THEN loc' = "panicked" /\ cpu' = mem_write(cpu, arg.pos, as_u8(BitAnd(arg.w, 255)))
       ELSE loc' = "word_written" /\ cpu' = mem_write_u16(cpu, arg.pos, arg.w)
    /\ ret' = ret
    /\ UnitFrame

MemReadU16 ==
    /\ loc = "word_written"
    /\ IF overflow_checks /\ u16_plus_one_overflows(arg.pos)
       THEN loc' = "panicked" /\ ret' = ret
       ELSE loc' = "word_read" /\ ret' = mem_read_u16(cpu, arg.pos)
    /\ cpu' = cpu
    /\ UnitFrame

NextWord == MemWriteU16 \/ MemReadU16

SpecWord == InitWord /\ [][NextWord]_vars

\* Renderer inputs.  Pattern memory A: bank 0 holds tile 0 all zero,
\* tile 1 of value 1, tile 2 of value 2 and tile 3 of mixed values that is
\* symmetric under neither flip; tile 0 of bank 1 has value 1 throughout.
\* Pattern memory B has the two banks' tile 0 the other way round
PatternRomA ==
    [k \in (16..23) \cup (40..47) \cup (48..63) \cup (4096..4103) |->
        IF k \in 16..23 \/ k \in 40..47 \/ k \in 4096..4103 THEN 255
        ELSE IF k \in 48..51 THEN 240
        ELSE IF k \in 52..55 THEN 15
        ELSE 60]

PatternRomB == [k \in 0..7 |-> 255]

\* palette memory with universal background entry p0
PaletteTable(p0) == [k \in 0..31 |-> IF k = 0 THEN p0 ELSE (2 * k + 1) % 64]

EmptyTable == [k \in {} |-> 0]

\* the frame positions followed: a band of 8 rows, or a block around (100, 100)
RowBand(band) == Rect(0, 8 * band, 256, 8 * band + 8)

SpriteBlock == Rect(100, 100, 116, 113)

Window == (arg.window.x1..(arg.window.x2 - 1)) \X (arg.window.y1..(arg.window.y2 - 1))

RenderInit ==
    /\ UnitInit
    /\ cpu = Cpu_new(Bus_new(EmptyMem, FALSE, FALSE))
    /\ loc = "render_start"

\* SpecBackground: render with an empty OAM, band by band
InitBackground ==
    /\ RenderInit
    /\ \E rom \in {PatternRomA, PatternRomB}, ctrl \in {0, 16}, p0 \in {15, 33},
          vram \in {EmptyTable, (33 :> 1)}, scroll_x \in {0, 8}, band \in 0..29 :
            arg = [ppu |-> NesPPU(ctrl, "Vertical", scroll_x, 0, vram, EmptyTable,
                                  PaletteTable(p0), rom),
                   window |-> RowBand(band)]

\* render on a frame fresh from Frame::new: the render_name_table calls
\* and then the sprite loop over the 64 entries of oam_data.  ret keeps the
\* followed positions as the passes leave them (background) and as they are
\* when render returns (frame)
Render ==
    /\ loc = "render_start"
    /\ IF render_panics(arg.ppu)
          \/ (overflow_checks /\ second_shift_underflows(arg.ppu))
       THEN loc' = "panicked" /\ ret' = ret
       ELSE /\ loc' = "rendered"
            /\ ret' =
                 LET background ==
                         [p \in Window |->
                             render_background(arg.ppu, BlackPixel, p[1], p[2])]
                 IN [background |-> background,
                     frame |-> sprite_loop(arg.ppu, background)]
    /\ cpu' = cpu
    /\ UnitFrame

NextRender == Render

SpecBackground == InitBackground /\ [][NextRender]_vars

\* SpecSprites: render with sprites 0, 1 and 2 placed on top of each other
SpriteOam(s0, s1, s2) ==
    [k \in 0..11 |-> (s0 \o s1 \o s2)[k + 1]]

InitSprites ==
    /\ RenderInit
    /\ \E t0 \in {1, 3}, a0 \in {0, 65, 130}, t1 \in {2, 3}, a1 \in {1, 194},
          dx \in {0, 3, 8}, dy \in {0, 5}, t2 \in {0, 2} :
            arg = [ppu |-> NesPPU(0, "Horizontal", 0, 0, EmptyTable,
                                  SpriteOam(<<100, t0, a0, 100>>,
                                            <<100 + dy, t1, a1, 100 + dx>>,
                                            <<104, t2, 3, 104>>),
                                  PaletteTable(33), PatternRomA),
                   window |-> SpriteBlock]

SpecSprites == InitSprites /\ [][NextRender]_vars

\* Instruction-level specifications: one iteration of the loop of
\* run_with_callback on an instruction placed in memory; arg keeps the
\* inputs and the Cpu before the iteration
InstrBus(bus, at, bytes) ==
    LET b1 == bus_mem_write(bus, at, bytes[1])
        b2 == IF Len(bytes) > 1 THEN bus_mem_write(b1, (at + 1) % 65536, bytes[2]) ELSE b1
    IN IF Len(bytes) > 2 THEN bus_mem_write(b2, (at + 2) % 65536, bytes[3]) ELSE b2

\* a Cpu about to fetch the instruction `bytes` stored at address `at`
InstrCpu(at, bytes, a, x, y, status, sp) ==
    [Cpu_new(InstrBus(Bus_new(EmptyMem, FALSE, FALSE), at, bytes))
        EXCEPT !.register_a = a, !.register_x = x, !.register_y = y,
               !.status = status, !.stack_pointer = sp, !.program_counter = at]

\* fetch, dispatch and program counter advance of one instruction
Iteration ==
    /\ loc = "instr_start"
    /\ IF step_panics(cpu)
       THEN loc' = "panicked" /\ cpu' = step_abort(cpu)
       ELSE IF step_returns(cpu)
       THEN loc' = "returned" /\ cpu' = after_fetch(cpu)
       ELSE loc' = "instr_done" /\ cpu' = step(cpu)
    /\ ret' = ret
    /\ UnitFrame

\* SpecBranch: the eight branch opcodes with every offset byte, from three
\* addresses and with the tested flags all clear or all set
BranchOpcodes == {16, 48, 80, 112, 144, 176, 208, 240}

BranchAddresses == {16, 1536, 65520}

InitBranch ==
    /\ UnitInit
    /\ \E opcode \in BranchOpcodes, offset \in Byte, status \in {36, 231},
          at \in BranchAddresses :
            /\ cpu = InstrCpu(at, <<opcode, offset>>, 0, 0, 0, status, STACK_RESET)
            /\ arg = [opcode |-> opcode, offset |-> offset, before |-> cpu]
    /\ loc = "instr_start"

SpecBranch == InitBranch /\ [][Iteration]_vars

\* SpecJsrRts: the loop iteration on a JSR stored at P and the iteration
\* after it on the RTS stored at the operand address, in both builds; no RTS
\* is stored where the operand points into the JSR itself
JsrAddresses == {1536, 32768, 65532, 65533}

JsrOperands == {0, 508, 1537, 1792, 49152, 65535}

\* what a helper-level Init fixes when the build profile is left open
AnyBuildInit ==
    /\ overflow_checks \in BOOLEAN
    /\ last_op = "new"
    /\ ncalls = 0
    /\ boot = NoBoot
    /\ cb_calls = 0
    /\ cb_pc = 0
    /\ fetches = 0
    /\ fetch_pc = 0
    /\ ret = 0

InitJsrRts ==
    /\ AnyBuildInit
    /\ \E at \in JsrAddresses, operand \in JsrOperands, sp \in {0, 1, 128, 253, 255} :
            /\ cpu = LET jsr_at == InstrCpu(at, <<32, operand % 256, operand \div 256>>,
                                            0, 0, 0, 36, sp)
                     IN IF operand \in {at, (at + 1) % 65536, (at + 2) % 65536}
                        THEN jsr_at
                        ELSE mem_write(jsr_at, operand, 96)
            /\ arg = [operand |-> operand, before |-> cpu]
    /\ loc = "jsr_start"

\* one iteration of the loop of run_with_callback: fetch, the arm
\* `"JSR" => self.jsr()` or `"RTS" => self.rts()`, and the program counter
\* advance. The first iteration fetches the JSR; the second is followed when
\* it fetches an RTS. An abort leaves the state of the statement that
\* aborted: the fetch, or the handler (jsr aborts before it pushes, rts after
\* it popped)
JsrRtsIteration ==
    /\ loc \in {"jsr_start", "jsr_done"}
    /\ loc = "jsr_done" => fetch_opcode(cpu) = 96
    /\ IF step_panics(cpu)
       THEN /\ loc' = "panicked"
            /\ cpu' = step_abort(cpu)
       ELSE /\ loc' = (IF loc = "jsr_start" THEN "jsr_done" ELSE "rts_done")
            /\ cpu' = step(cpu)
    /\ ret' = ret
    /\ UnitFrame

NextJsrRts == JsrRtsIteration

SpecJsrRts == InitJsrRts /\ [][NextJsrRts]_vars

\* SpecRegisterWrite: one loop iteration on each instruction that writes a
\* register; v is the immediate operand, the byte on top of the stack and,
\* for TSX, the stack pointer
RegisterWriteOpcodes == {169, 162, 160, 170, 168, 138, 152, 186, 232, 200, 202, 136, 104}

RegisterSamples == {0, 1, 127, 128, 255}

InitRegisterWrite ==
    /\ UnitInit
    /\ \E opcode \in RegisterWriteOpcodes, a \in RegisterSamples, x \in RegisterSamples,
          y \in RegisterSamples, v \in RegisterSamples, status \in {36, 166} :
            /\ cpu = mem_write(InstrCpu(1536, <<opcode, v>>, a, x, y, status,
                                        IF opcode = 186 THEN v ELSE STACK_RESET),
                               STACK + STACK_RESET + 1, v)
            /\ arg = [opcode |-> opcode, v |-> v, before |-> cpu]
    /\ loc = "instr_start"

SpecRegisterWrite == InitRegisterWrite /\ [][Iteration]_vars

\* SpecShiftAccumulator: one loop iteration on ASL, LSR, ROL and ROR in
\* accumulator mode, for every accumulator value and both carries
ShiftAccumulatorOpcodes == {10, 74, 42, 106}

InitShiftAccumulator ==
    /\ UnitInit
    /\ \E opcode \in ShiftAccumulatorOpcodes, a \in Byte, carry \in {0, 1},
          status \in {36, 166} :
            /\ cpu = InstrCpu(1536, <<opcode>>, a, 0, 0, status + carry, STACK_RESET)
            /\ arg = [opcode |-> opcode, a |-> a, carry |-> carry, before |-> cpu]
    /\ loc = "instr_start"

SpecShiftAccumulator == InitShiftAccumulator /\ [][Iteration]_vars

\* SpecShiftMemory: one loop iteration on ASL, LSR, ROL and ROR of a zero
\* page byte (0x0010) or an absolute byte (0x0210) holding m
ShiftMemoryOpcodes == {6, 14, 70, 78, 38, 46, 102, 110}

\* the operand bytes naming the byte under test, and its address
OperandFor(opcode) ==
    IF OPCODES_MAP[opcode].len = 2 THEN <<opcode, 16>> ELSE <<opcode, 16, 2>>

OperandAddressFor(opcode) == IF OPCODES_MAP[opcode].len = 2 THEN 16 ELSE 528

InitShiftMemory ==
    /\ UnitInit
    /\ \E opcode \in ShiftMemoryOpcodes, m \in Byte, a \in RegisterSamples,
          carry \in {0, 1} :
            /\ cpu = mem_write(InstrCpu(1536, OperandFor(opcode), a, 3, 7,
                                        36 + carry, STACK_RESET),
                               OperandAddressFor(opcode), m)
            /\ arg = [opcode |-> opcode, m |-> m, a |-> a, carry |-> carry,
                      before |-> cpu]
    /\ loc = "instr_start"

SpecShiftMemory == InitShiftMemory /\ [][Iteration]_vars

\* SpecShiftCombine: one loop iteration on SLO, RLA, SRE and RRA of a zero
\* page byte (0x0010) or an absolute byte (0x0210) holding m
ShiftCombineOpcodes == {7, 15, 39, 47, 71, 79, 103, 111}

InitShiftCombine ==
    /\ UnitInit
    /\ \E opcode \in ShiftCombineOpcodes, m \in Byte, a \in RegisterSamples \cup {85},
          carry \in {0, 1} :
            /\ cpu = mem_write(InstrCpu(1536, OperandFor(opcode), a, 3, 7,
                                        36 + carry, STACK_RESET),
                               OperandAddressFor(opcode), m)
            /\ arg = [opcode |-> opcode, m |-> m, a |-> a, carry |-> carry,
                      before |-> cpu]
    /\ loc = "instr_start"

SpecShiftCombine == InitShiftCombine /\ [][Iteration]_vars

\* SpecDcp: one loop iteration on DCP of a zero page byte (0x0010) or an
\* absolute byte (0x0210) holding m
DcpOpcodes == {199, 207}

InitDcp ==
    /\ UnitInit
    /\ \E opcode \in DcpOpcodes, m \in Byte, a \in ByteSamples, carry \in {0, 1} :
            /\ cpu = mem_write(InstrCpu(1536, OperandFor(opcode), a, 3, 7,
                                        36 + carry, STACK_RESET),
                               OperandAddressFor(opcode), m)
            /\ arg = [opcode |-> opcode, m |-> m, a |-> a, carry |-> carry,
                      before |-> cpu]
    /\ loc = "instr_start"

SpecDcp == InitDcp /\ [][Iteration]_vars

\* SpecCompare: one loop iteration on CMP, CPX and CPY with an immediate
\* operand m, for every register value r; the flags start all clear or all set
CompareOpcodes == {201, 224, 192}

InitCompare ==
    /\ UnitInit
    /\ \E opcode \in CompareOpcodes, r \in Byte, m \in Byte, status \in {36, 231} :
            /\ cpu = InstrCpu(1536, <<opcode, m>>,
                              IF opcode = 201 THEN r ELSE 3,
                              IF opcode = 224 THEN r ELSE 5,
                              IF opcode = 192 THEN r ELSE 7, status, STACK_RESET)
            /\ arg = [opcode |-> opcode, r |-> r, m |-> m, before |-> cpu]
    /\ loc = "instr_start"

SpecCompare == InitCompare /\ [][Iteration]_vars

\* SpecAdc: one loop iteration on ADC with an immediate operand d, for every
\* accumulator value, operand and carry-in; Overflow starts clear or set
InitAdc ==
    /\ UnitInit
    /\ \E a \in Byte, d \in Byte, carry \in {0, 1}, status \in {36, 100} :
            /\ cpu = InstrCpu(1536, <<105, d>>, a, 3, 7, status + carry, STACK_RESET)
            /\ arg = [a |-> a, d |-> d, carry |-> carry, before |-> cpu]
    /\ loc = "instr_start"

SpecAdc == InitAdc /\ [][Iteration]_vars

\* SpecSbc: one loop iteration on SBC with an immediate operand d, for every
\* accumulator value, operand and carry-in
InitSbc ==
    /\ UnitInit
    /\ \E a \in Byte, d \in Byte, carry \in {0, 1} :
            /\ cpu = InstrCpu(1536, <<233, d>>, a, 3, 7, 36 + carry, STACK_RESET)
            /\ arg = [a |-> a, d |-> d, carry |-> carry, before |-> cpu]
    /\ loc = "instr_start"

SpecSbc == InitSbc /\ [][Iteration]_vars

\* SpecNop: one loop iteration on every NOP, DOP and TOP opcode of the table
NopOpcodes ==
    {code \in DOMAIN OPCODES_MAP : OPCODES_MAP[code].mnemonic \in {"NOP", "DOP", "TOP"}}

InitNop ==
    /\ UnitInit
    /\ \E opcode \in NopOpcodes, b1 \in {0, 16, 255}, b2 \in {0, 2, 255},
          a \in {0, 128}, x \in {0, 255}, status \in {36, 231}, at \in {1536, 32768} :
            /\ cpu = InstrCpu(at, <<opcode, b1, b2>>, a, x, 7, status, STACK_RESET)
            /\ arg = [opcode |-> opcode, before |-> cpu]
    /\ loc = "instr_start"

SpecNop == InitNop /\ [][Iteration]_vars

\* SpecStackPage: one stack_push or one stack_pop from every stack pointer,
\* on a stack page 0x0100..0x01FF of pairwise different bytes
StackPageImage == [k \in 256..511 |-> (3 * (k - 256) + 1) % 256]

InitStackPage ==
    /\ UnitInit
    /\ \E sp \in Byte :
        /\ cpu = [Cpu_new(Bus_new(StackPageImage, FALSE, FALSE))
                      EXCEPT !.stack_pointer = sp]
        /\ \/ \E v \in ByteSamples : arg = [op |-> "push", value |-> v, before |-> cpu]
           \/ arg = [op |-> "pop", value |-> 0, before |-> cpu]
    /\ loc = "page_start"

PagePush ==
    /\ loc = "page_start" /\ arg.op = "push"
    /\ cpu' = stack_push(cpu, arg.value)
    /\ ret' = ret
    /\ loc' = "page_pushed"
    /\ UnitFrame

PagePop ==
    /\ loc = "page_start" /\ arg.op = "pop"
    /\ cpu' = stack_pop(cpu).cpu
    /\ ret' = stack_pop(cpu).val
    /\ loc' = "page_popped"
    /\ UnitFrame

NextStackPage == PagePush \/ PagePop

SpecStackPage == InitStackPage /\ [][NextStackPage]_vars

\* SpecZeroPageIndex: get_operand_address for ZeroPage_X, ZeroPage_Y and
\* Indirect_X, for every operand byte at 0x0200 and every index value, on
\* the zero page of ZeroPageImage; the other index register holds index + 7
ZeroPageIndexModes == {"ZeroPage_X", "ZeroPage_Y", "Indirect_X"}

IndexSamples == ByteSamples \cup {2, 16, 129, 249, 254}

InitZeroPageIndex ==
    /\ UnitInit
    /\ \E mode \in ZeroPageIndexModes, b \in Byte, index \in IndexSamples :
        /\ cpu = [Cpu_new(bus_mem_write(ZeroPageBus, 512, b))
                      EXCEPT !.register_x = IF mode = "ZeroPage_Y"
                                            THEN (index + 7) % 256 ELSE index,
                             !.register_y = IF mode = "ZeroPage_Y"
                                            THEN index ELSE (index + 7) % 256,
                             !.program_counter = 512]
        /\ arg = [mode |-> mode, b |-> b, index |-> index, before |-> cpu]
    /\ loc = "index_start"

ResolveZeroPageIndex ==
    /\ loc = "index_start"
    /\ ~get_operand_address_panics(cpu, arg.mode)
    /\ ret' = get_operand_address(cpu, arg.mode)
    /\ loc' = "index_done"
    /\ cpu' = cpu
    /\ UnitFrame

NextZeroPageIndex == ResolveZeroPageIndex

SpecZeroPageIndex == InitZeroPageIndex /\ [][NextZeroPageIndex]_vars

\* ScrollRegister (ppu_registers.rs)
ScrollRegister_new == [scroll_x |-> 0, scroll_y |-> 0, latch |-> FALSE]

\* ScrollRegister::write that leaves the latch alone
ScrollRegister_write_no_toggle(s, data) ==
    IF ~s.latch THEN [s EXCEPT !.scroll_x = data]
    ELSE [s EXCEPT !.scroll_y = data]

ScrollRegister_write(s, data) ==
    LET s1 == IF ~s.latch THEN [s EXCEPT !.scroll_x = data]
              ELSE [s EXCEPT !.scroll_y = data]
    IN [s1 EXCEPT !.latch = ~s1.latch]

ScrollRegister_reset_latch(s) == [s EXCEPT !.latch = FALSE]

\* SpecScroll: any sequence of at most MaxScrollOps write and reset_latch
\* calls on a new ScrollRegister, held in arg.reg; arg also records the last
\* call, the register before it and the writes since the last reset_latch
MaxScrollOps == 5

ScrollData == {0, 1, 128, 255}

InitScroll ==
    /\ UnitInit
    /\ cpu = Cpu_new(Bus_new(<<>>, FALSE, FALSE))
    /\ arg = [reg |-> ScrollRegister_new, last |-> "new", data |-> 0,
              writes |-> 0, ops |-> 0, before |-> ScrollRegister_new]
    /\ loc = "scroll"

ScrollWrite ==
    /\ loc = "scroll" /\ arg.ops < MaxScrollOps
    /\ \E data \in ScrollData :
        arg' = [reg |-> ScrollRegister_write(arg.reg, data), last |-> "write",
                data |-> data, writes |-> arg.writes + 1,
                ops |-> arg.ops + 1, before |-> arg.reg]
    /\ UNCHANGED <<cpu, loc, ret, overflow_checks, ncalls, boot, last_op,
                   cb_calls, cb_pc, fetches, fetch_pc>>

ScrollResetLatch ==
    /\ loc = "scroll" /\ arg.ops < MaxScrollOps
    /\ arg' = [reg |-> ScrollRegister_reset_latch(arg.reg),
               last |-> "reset_latch", data |-> 0, writes |-> 0,
               ops |-> arg.ops + 1, before |-> arg.reg]
    /\ UNCHANGED <<cpu, loc, ret, overflow_checks, ncalls, boot, last_op,
                   cb_calls, cb_pc, fetches, fetch_pc>>

NextScroll == ScrollWrite \/ ScrollResetLatch

SpecScroll == InitScroll /\ [][NextScroll]_vars

\* SpecNametables: the match at the head of render, for every control byte,
\* the two mirrorings of the match and one further mode, with the scroll
\* and the nametable memory varied alongside
MirroringModes == {"Vertical", "Horizontal", "FourScreen"}

InitNametables ==
    /\ RenderInit
    /\ \E ctrl \in Byte, mirroring \in MirroringModes, scroll_x \in {0, 8},
          vram \in {EmptyTable, (33 :> 1), (1057 :> 2)} :
            arg = [ppu |-> NesPPU(ctrl, mirroring, scroll_x, 0, vram, EmptyTable,
                                  PaletteTable(15), PatternRomA)]

SelectNametables ==
    /\ loc = "render_start"
    /\ IF render_panics(arg.ppu)
       THEN loc' = "panicked" /\ ret' = ret
       ELSE loc' = "nametables_chosen" /\ ret' = nametables(arg.ppu)
    /\ cpu' = cpu
    /\ UnitFrame

NextNametables == SelectNametables

SpecNametables == InitNametables /\ [][NextNametables]_vars

\* SpecScrollPasses: render with an empty OAM for pairs of scroll
\* values, followed in the four corners of the frame.  The main nametable
\* holds tile 0 throughout (the universal background colour), the second
\* nametable tile 1 throughout
SecondTableOfOnes == [k \in 1024..1983 |-> 1]

ScrollXSamples == {0, 1, 8, 128, 255}

ScrollYSamples == {0, 1, 8, 128, 239}

CornerWindows ==
    {Rect(0, 0, 4, 4), Rect(252, 0, 256, 4), Rect(0, 236, 4, 240),
     Rect(252, 236, 256, 240)}

MainColour == SYSTEM_PALLETE[33 + 1]

SecondColour == SYSTEM_PALLETE[PaletteTable(33)[1] + 1]

InitScrollPasses ==
    /\ RenderInit
    /\ \E scroll_x \in ScrollXSamples, scroll_y \in ScrollYSamples,
          window \in CornerWindows :
            arg = [ppu |-> NesPPU(0, "Vertical", scroll_x, scroll_y,
                                  SecondTableOfOnes, EmptyTable,
                                  PaletteTable(33), PatternRomA),
                   window |-> window]

SpecScrollPasses == InitScrollPasses /\ [][NextRender]_vars

\* The set_pixel calls of one render_name_table pass: the pass calls
\* set_pixel for every pixel (pixel_x, pixel_y) of the 256 x 240 pixels of
\* the nametable that lies in view_port, with the sums shift_x + pixel_x and
\* shift_y + pixel_y: once for each pair of xs \X ys.  The sums are kept as
\* the isize values they are before the `as usize` casts, which send a
\* negative sum to a value above 2^63
pass_xs(view_port, shift_x) ==
    {shift_x + pixel_x : pixel_x \in
        {p \in 0..255 : p >= view_port.x1 /\ p < view_port.x2}}

pass_ys(view_port, shift_y) ==
    {shift_y + pixel_y : pixel_y \in
        {p \in 0..239 : p >= view_port.y1 /\ p < view_port.y2}}

set_pixel_calls(pass, view_port, shift_x, shift_y) ==
    [pass |-> pass, xs |-> pass_xs(view_port, shift_x),
     ys |-> pass_ys(view_port, shift_y)]

\* the passes of render before the sprite loop; where the build wraps,
\* `(240 - scroll_y) as isize` is 240 - scroll_y also below zero
background_passes(ppu) ==
    LET scroll_x == ppu.scroll.scroll_x
        scroll_y == ppu.scroll.scroll_y
        main     == set_pixel_calls("main", Rect(scroll_x, scroll_y, 256, 240),
                                    -scroll_x, -scroll_y)
    IN IF scroll_x > 0
       THEN <<main, set_pixel_calls("columns", Rect(0, 0, scroll_x, 240),
                                    256 - scroll_x, 0)>>
       ELSE IF scroll_y > 0
       THEN <<main, set_pixel_calls("rows", Rect(0, 0, 256, scroll_y),
                                    0, 240 - scroll_y)>>
       ELSE <<main>>

\* SpecSetPixel: the background passes of render for every scroll_y and the
\* scroll_x values of IndexSamples, in a build that traps on overflow and in
\* one that wraps
InitSetPixel ==
    /\ AnyBuildInit
    /\ cpu = Cpu_new(Bus_new(EmptyMem, FALSE, FALSE))
    /\ \E scroll_x \in IndexSamples, scroll_y \in Byte :
            arg = [ppu |-> NesPPU(0, "Vertical", scroll_x, scroll_y, EmptyTable,
                                  EmptyTable, PaletteTable(33), PatternRomA)]
    /\ loc = "render_start"

BackgroundPasses ==
    /\ loc = "render_start"
    /\ IF render_panics(arg.ppu)
          \/ (overflow_checks /\ second_shift_underflows(arg.ppu))
       THEN loc' = "panicked" /\ ret' = ret
       ELSE loc' = "passes_done" /\ ret' = background_passes(arg.ppu)
    /\ cpu' = cpu
    /\ UnitFrame

NextSetPixel == BackgroundPasses

SpecSetPixel == InitSetPixel /\ [][NextSetPixel]_vars

\* How the match of the loop ends for `operation` on the Cpu after the fetch:
\* todo!() for a mnemonic without an arm, the panic of get_operand_address
\* for NoneAddressing, the expect() of plp and rti on a status byte that
\* from_bits rejects, the return of BRK, an overflow trap inside the handler,
\* or a handler that ran to its end
dispatch_outcome(c, operation) ==
    LET m == operation.mnemonic IN
    CASE m \notin HandledMnemonics -> "todo"
      [] m \in OperandMnemonics /\ operation.mode = "NoneAddressing"
            -> "mode_not_supported"
      [] (m = "PLP" /\ plp_panics(c)) \/ (m = "RTI" /\ rti_panics(c))
            -> "status_parse"
      [] m = "BRK" -> "return"
      [] execute_panics(c, operation) -> "overflow"
      [] OTHER -> "handled"

\* SpecDispatch: one loop iteration on every opcode of the table, in both
\* builds, with the byte on top of the stack running through all 256 values
\* before PLP and RTI
DispatchAddresses == {1536, 65533}

StackTopBytes(opcode) ==
    IF OPCODES_MAP[opcode].mnemonic \in {"PLP", "RTI"} THEN Byte ELSE {0, 255}

InitDispatch ==
    /\ AnyBuildInit
    /\ \E opcode \in DOMAIN OPCODES_MAP, at \in DispatchAddresses, x \in {0, 255} :
        \E top \in StackTopBytes(opcode) :
            /\ cpu = mem_write(InstrCpu(at, <<opcode, 255, 2>>, 1, x, x, 36, 252),
                               STACK + 253, top)
            /\ arg = [opcode |-> opcode, top |-> top, before |-> cpu]
    /\ loc = "instr_start"

\* one loop iteration: the fetch, the match, and the program counter
\* advance; BRK returns with the program counter past its opcode, and the
\* advance of a checked build aborts when it passes 0xFFFF
Dispatch ==
    /\ loc = "instr_start"
    /\ ~(overflow_checks /\ cpu.program_counter + 1 > 65535)
    /\ fetch_opcode(cpu) \in DOMAIN OPCODES_MAP
    /\ LET c1        == after_fetch(cpu)
           operation == OPCODES_MAP[fetch_opcode(cpu)]
           outcome   == dispatch_outcome(c1, operation)
       IN /\ ret' = outcome
          /\ CASE outcome = "return" -> loc' = "returned" /\ cpu' = c1
                [] outcome = "handled" ->
                      IF /\ overflow_checks
                         /\ advance_overflows(execute(c1, operation),
                                              c1.program_counter, operation)
                      THEN loc' = "panicked" /\ cpu' = execute(c1, operation)
                      ELSE loc' = "dispatched" /\ cpu' = step(cpu)
                [] OTHER ->
                      loc' = "panicked" /\ cpu' = state_at_abort(c1, operation)
    /\ UnitFrame

NextDispatch == Dispatch

SpecDispatch == InitDispatch /\ [][NextDispatch]_vars

\* SpecAbsoluteAddress: get_absolute_address(mode, addr) on a Cpu whose
\* program counter is elsewhere, next to get_operand_address(mode) on the
\* same Cpu with the program counter at addr; the operand bytes b1, b2 are
\* stored at addr on the zero page of ZeroPageImage, in both builds
MemoryModes ==
    {"ZeroPage", "Absolute", "ZeroPage_X", "ZeroPage_Y", "Absolute_X",
     "Absolute_Y", "Indirect_X", "Indirect_Y"}

OperandAddresses == {255, 512, 65534, 65535}

Panicked == -2

InitAbsoluteAddress ==
    /\ AnyBuildInit
    /\ \E mode \in MemoryModes, addr \in OperandAddresses, b1 \in IndexSamples,
          b2 \in {0, 2, 255}, x \in {0, 1, 255}, y \in {0, 2, 255} :
        /\ cpu = [Cpu_new(InstrBus(ZeroPageBus, addr, <<b1, b2>>))
                      EXCEPT !.register_x = x, !.register_y = y,
                             !.program_counter = 1536]
        /\ arg = [mode |-> mode, addr |-> addr, before |-> cpu]
    /\ loc = "absolute_start"

ResolveBoth ==
    /\ loc = "absolute_start"
    /\ LET at_addr == [cpu EXCEPT !.program_counter = arg.addr]
       IN ret' = [absolute |-> IF get_absolute_address_panics(cpu, arg.mode, arg.addr)
                               THEN Panicked
                               ELSE get_absolute_address(cpu, arg.mode, arg.addr),
                  operand  |-> IF get_operand_address_panics(at_addr, arg.mode)
                               THEN Panicked
                               ELSE get_operand_address(at_addr, arg.mode)]
    /\ cpu' = cpu
    /\ loc' = "absolute_done"
    /\ UnitFrame

NextAbsoluteAddress == ResolveBoth

SpecAbsoluteAddress == InitAbsoluteAddress /\ [][NextAbsoluteAddress]_vars

TypeOK ==
    /\ cpu.register_a \in Byte /\ cpu.register_x \in Byte /\ cpu.register_y \in Byte
    /\ cpu.status \in Byte /\ cpu.stack_pointer \in Byte
    /\ cpu.program_counter \in Word
    /\ \A k \in DOMAIN cpu.bus.mem : k \in Word /\ cpu.bus.mem[k] \in Byte

(***************************************************************************)
(* Properties of load / reset / run                                        *)
(***************************************************************************)
Booted(id) == boot = [prog |-> id, stage |-> "run"]

\* C1: load [A9 05 AA E8 00], reset, run: the run neither aborts nor goes on
\* past its fourth fetch, where it returns with X = 6 and Zero, Negative clear
C1_FiveOpsLeaveX6 ==
    Booted(1) =>
        /\ loc # "panicked"
        /\ fetches <= 4
        /\ fetches = 4 => loc = "returned"
        /\ loc = "returned" =>
              /\ cpu.register_x = 6
              /\ ~contains(cpu.status, ZERO)
              /\ ~contains(cpu.status, NEGATIVE)

C1_Witness == Booted(1) /\ loc = "returned" /\ fetches = 4 /\ cpu.register_x = 6

\* C2: load [A9 FF 69 02 00], reset, run: the run neither aborts nor goes on
\* past its third fetch, where it returns with A = 1, Carry set, Overflow clear
C2_AdcSetsCarry ==
    Booted(2) =>
        /\ loc # "panicked"
        /\ fetches <= 3
        /\ fetches = 3 => loc = "returned"
        /\ loc = "returned" =>
              /\ cpu.register_a = 1
              /\ contains(cpu.status, CARRY)
              /\ ~contains(cpu.status, OVERFLOW)

C2_Witness ==
    Booted(2) /\ loc = "returned" /\ fetches = 3 /\ contains(cpu.status, CARRY)

\* the status byte an interrupt pushes: Break cleared, Break2 set
interrupt_flags(status) == insert(remove(status, BREAK), BREAK2)

\* C3: every loop iteration that starts with the bus reporting a pending NMI
\* reaches its fetch with the NMI serviced: program counter and status
\* snapshot (Break clear, Break2 set) pushed, InterruptDisable set, program
\* counter loaded from 0xFFFA
C3_NmiServicedBeforeFetch ==
    [][(loc = "loop_top" /\ loc' = "fetch" /\ cpu.bus.nmi_interrupt) =>
        LET sp == cpu.stack_pointer
            pc == cpu.program_counter
        IN /\ cpu'.program_counter = mem_read_u16(cpu, 65530)
           /\ contains(cpu'.status, INTERRUPT_DISABLE)
           /\ cpu'.stack_pointer = wrapping_sub_u8(sp, 3)
           /\ mem_read(cpu', STACK + sp) = pc \div 256
           /\ mem_read(cpu', STACK + wrapping_sub_u8(sp, 1)) = pc % 256
           /\ mem_read(cpu', STACK + wrapping_sub_u8(sp, 2)) = interrupt_flags(cpu.status)
      ]_vars

\* C4: an iteration of the run loop ends the run by returning exactly when
\* the opcode it fetches is BRK (0x00)
C4_ReturnsExactlyOnBrk ==
    [][(loc = "fetch" /\ loc' # "fetch") =>
        ((loc' = "returned") <=> (fetch_opcode(cpu) = 0))]_vars

\* C5: the observer has run once for every opcode fetch, the halting BRK
\* included; it runs before the fetch and sees the program counter at the
\* opcode that the iteration then fetches
C5_ObserverOncePerInstruction ==
    /\ loc = "fetch" => cb_calls = fetches + 1 /\ cb_pc = cpu.program_counter
    /\ loc # "fetch" => cb_calls = fetches /\ (fetches > 0 => fetch_pc = cb_pc)

C5_Witness ==
    /\ loc = "returned" /\ cb_calls = 4 /\ fetches = 4
    /\ mem_read(cpu, fetch_pc) = 0 /\ cb_pc = fetch_pc

\* C6: reset() leaves A, X, Y at 0, the stack pointer at 0xFD, the status at
\* 0b0010_0100 and the program counter at the word stored at 0xFFFC
C6_ResetDefaults ==
    (last_op = "reset" /\ loc = "idle") =>
        /\ cpu.register_a = 0
        /\ cpu.register_x = 0
        /\ cpu.register_y = 0
        /\ cpu.stack_pointer = STACK_RESET
        /\ cpu.status = 36
        /\ cpu.program_counter = mem_read_u16(cpu, 65532)

\* the bytes load(p) is to leave in memory: p at 0x8600.., 0x8600 at 0xFFFC
LoadedImage(p) ==
    /\ \A i \in 0..(Len(p) - 1) : mem_read(cpu, 34304 + i) = p[i + 1]
    /\ mem_read(cpu, 65532) = 0
    /\ mem_read(cpu, 65533) = 134
    /\ reset(cpu).program_counter = 34304

\* C7 as stated: after load(p), whatever the length of p, memory holds p at
\* 0x8600.. and the reset vector holds 0x8600, so that reset() starts at p[0]
C7_LoadCopiesEveryProgram ==
    (last_op = "load" /\ loc = "idle") => LoadedImage(LoadPrograms[boot.prog])

\* the program ends below the storage cell of the reset vector
FitsBelowVector(p) == Len(p) <= (IF cpu.bus.prg_half THEN 14844 ELSE 31228)

\* C7 amended: after load(p) of a program that ends below the storage of the
\* reset vector, memory holds p at 0x8600.. and the reset vector holds 0x8600
C7_LoadCopiesProgram ==
    (last_op = "load" /\ loc = "idle" /\ FitsBelowVector(LoadPrograms[boot.prog]))
        => LoadedImage(LoadPrograms[boot.prog])

C7_Witness ==
    /\ last_op = "load" /\ loc = "idle" /\ boot.prog = 1
    /\ mem_read(cpu, 34304) = 169 /\ mem_read(cpu, 34308) = 0
    /\ mem_read_u16(cpu, 65532) = 34304

(***************************************************************************)
(* Properties of the helpers                                               *)
(***************************************************************************)
\* C8: stack_push(v) then stack_pop() returns v, and stack_push_u16(w) then
\* stack_pop_u16() returns w, with the stack pointer back at its start value
C8_StackRoundTrip ==
    loc = "popped" => ret = arg.value /\ cpu.stack_pointer = arg.sp

C8_Witness ==
    /\ loc = "popped" /\ arg.width = 16 /\ arg.sp = 0 /\ arg.value = 43981
    /\ ret = 43981 /\ cpu.stack_pointer = 0
    /\ mem_read(cpu, 256) = 171 /\ mem_read(cpu, 511) = 205

\* C9: after PHP then PLP, Carry, Zero, InterruptDisable, DecimalMode,
\* Overflow and Negative are as before the PHP, Break is clear, Break2 is set
\* and the stack pointer is back at its start value
C9_PhpPlpKeepsFlags ==
    /\ loc # "panicked"
    /\ loc = "plp_done" =>
        /\ \A f \in {CARRY, ZERO, INTERRUPT_DISABLE, DECIMAL_MODE, OVERFLOW, NEGATIVE} :
               contains(cpu.status, f) <=> contains(arg.status, f)
        /\ ~contains(cpu.status, BREAK)
        /\ contains(cpu.status, BREAK2)
        /\ cpu.stack_pointer = arg.sp

C9_Witness ==
    /\ loc = "plp_done" /\ arg.status = 211 /\ arg.sp = 0
    /\ cpu.status = 227 /\ cpu.stack_pointer = 0

\* C10 as stated: ADC of d then SBC of d, with the flags the ADC left,
\* leaves the accumulator at its start value
C10_AdcSbcRestoresA ==
    loc = "sbc_done" => cpu.register_a = arg.a

\* the Carry an ADC of d leaves from accumulator a and carry-in c
AdcCarryOut(a, d, c) == IF a + d + c > 255 THEN 1 ELSE 0

\* C10 amended: ADC of d then SBC of d leaves the accumulator at
\* (a + c + k - 1) mod 256, k being the Carry the ADC left; it is a exactly
\* when k differs from the carry-in c
C10_AdcSbcOffByCarry ==
    loc = "sbc_done" =>
        LET k == AdcCarryOut(arg.a, arg.d, arg.carry)
        IN /\ cpu.register_a = (arg.a + arg.carry + k - 1) % 256
           /\ (cpu.register_a = arg.a) <=> (k # arg.carry)

C10_Witness ==
    /\ loc = "sbc_done" /\ arg.a = 255 /\ arg.d = 2 /\ arg.carry = 0
    /\ cpu.register_a = 255

\* C11: after update_zero_and_negative_flag(v), Zero is set iff v = 0,
\* Negative is set iff bit 7 of v is 1, whatever the status was before, and
\* the six other status bits are as before
C11_ZeroNegativeFromValue ==
    loc = "flags_updated" =>
        /\ contains(cpu.status, ZERO) <=> (arg.v = 0)
        /\ contains(cpu.status, NEGATIVE) <=> (arg.v >= 128)
        /\ \A f \in {CARRY, INTERRUPT_DISABLE, DECIMAL_MODE, BREAK, BREAK2, OVERFLOW} :
               contains(cpu.status, f) <=> contains(arg.status, f)
        /\ [cpu EXCEPT !.status = arg.status] = CpuWith(0, arg.status, STACK_RESET, 0)

C11_Witness ==
    /\ loc = "flags_updated" /\ arg.v = 127 /\ arg.status = 255
    /\ cpu.status = 125

\* C12: the Indirect_Y address is the pointer read at zero-page addresses b
\* and (b + 1) mod 256 (for b = 0xFF at 0x00FF and 0x0000, not 0x0100), plus
\* Y, modulo 2^16
C12_IndirectYWrapsPointer ==
    loc = "address_done" =>
        LET lo == mem_read(cpu, arg.b)
            hi == mem_read(cpu, (arg.b + 1) % 256)
        IN ret = (hi * 256 + lo + arg.y) % 65536

C12_Witness ==
    /\ loc = "address_done" /\ arg.b = 255 /\ arg.y = 1
    /\ mem_read(cpu, 255) = 252 /\ mem_read(cpu, 0) = 1 /\ mem_read(cpu, 256) = 170
    /\ ret = 509

\* C13: the indirect JMP handler leaves the program counter at the word whose
\* low byte is mem[p] and whose high byte is mem[p & 0xFF00] when the low
\* byte of the pointer p is 0xFF, and mem[p + 1] otherwise
C13_IndirectJmpPageBug ==
    (loc = "jump_executed" /\ arg.opcode = 108) =>
        LET ptr == arg.operand
            lo  == mem_read(cpu, ptr)
            hi  == IF ptr % 256 = 255 THEN mem_read(cpu, ptr - 255)
                   ELSE mem_read(cpu, ptr + 1)
        IN cpu.program_counter = hi * 256 + lo

C13_Witness ==
    /\ loc = "jump_executed" /\ arg.opcode = 108 /\ arg.operand = 767
    /\ mem_read(cpu, 767) = 128 /\ mem_read(cpu, 512) = 64 /\ mem_read(cpu, 768) = 80
    /\ cpu.program_counter = 16512

\* the address a JMP or JSR at 0x0600 names as its target
JumpTarget ==
    IF arg.opcode = 108
    THEN LET ptr == arg.operand
             lo  == mem_read(cpu, ptr)
             hi  == IF ptr % 256 = 255 THEN mem_read(cpu, ptr - 255)
                    ELSE mem_read(cpu, ptr + 1)
         IN hi * 256 + lo
    ELSE arg.operand

\* C20: after the loop iteration of a JMP (absolute or indirect) or a JSR the
\* program counter is the instruction's target, whatever the target is
C20_JumpLandsOnTarget ==
    loc = "jump_done" => cpu.program_counter = JumpTarget

\* C14: the status register always has Break clear and Break2 set
C14_BreakClearBreak2Set ==
    ~contains(cpu.status, BREAK) /\ contains(cpu.status, BREAK2)

\* the aborts the spec allows a loop iteration: a byte that is no key of the
\* opcode table, a mnemonic without a match arm, a memory operand handler
\* paired with NoneAddressing, a popped status byte that does not parse
aborts_by_design(c) ==
    \/ fetch_opcode(c) \notin DOMAIN OPCODES_MAP
    \/ LET operation == OPCODES_MAP[fetch_opcode(c)]
           m  == operation.mnemonic
           c1 == after_fetch(c)
       IN \/ m \notin HandledMnemonics
          \/ m \in OperandMnemonics /\ operation.mode = "NoneAddressing"
          \/ m = "PLP" /\ plp_panics(c1)
          \/ m = "RTI" /\ rti_panics(c1)

\* C15: no loop iteration aborts on arithmetic overflow: an iteration that
\* aborts does so for one of the reasons of aborts_by_design
C15_NoOverflowTrap ==
    [][(loc = "fetch" /\ loc' = "panicked") => aborts_by_design(cpu)]_vars

\* the bytes that are the code of an entry of the opcode table
TableCodes == {CPU_OPS_CODES[i].code : i \in DOMAIN CPU_OPS_CODES}

\* C16: a loop iteration that fetches a byte that is no code of the opcode
\* table aborts, and nothing runs after an abort
C16_UnknownOpcodeAborts ==
    [][/\ (loc = "fetch" /\ fetch_opcode(cpu) \notin TableCodes) => loc' = "panicked"
       /\ loc # "panicked"]_vars

C16_Witness ==
    /\ loc = "panicked" /\ Booted(5) /\ fetches = 1
    /\ fetch_pc = 34304 /\ mem_read(cpu, fetch_pc) = 2 /\ 2 \notin TableCodes

\* C17: mem_write_u16(pos, w) completes with the low byte of w at pos and the
\* high byte at pos + 1, and the following mem_read_u16(pos) returns w
C17_WordRoundTrip ==
    /\ loc # "panicked"
    /\ loc = "word_written" =>
          /\ mem_read(cpu, arg.pos) = arg.w % 256
          /\ mem_read(cpu, (arg.pos + 1) % 65536) = arg.w \div 256
    /\ loc = "word_read" => ret = arg.w

\* the OAM indices of the sprites with an opaque pixel at position (x, y)
OpaqueSprites(x, y) == {k \in 0..63 : render_sprite(arg.ppu, 4 * k, x, y) # NoWrite}

\* C18: at every position where some sprite has an opaque pixel, the frame
\* holds the colour of the opaque sprite with the lowest OAM index; so
\* sprite 0 shows where sprites 0 and 1 are both opaque
C18_LowestSpriteIndexWins ==
    loc = "rendered" =>
        \A p \in DOMAIN ret.frame :
            LET opaque == OpaqueSprites(p[1], p[2])
            IN opaque # {} =>
                  \E k \in opaque :
                      /\ \A j \in opaque : k <= j
                      /\ ret.frame[p] = render_sprite(arg.ppu, 4 * k, p[1], p[2])

C18_Witness ==
    /\ loc = "rendered"
    /\ \E p \in DOMAIN ret.frame :
          /\ {0, 1} \subseteq OpaqueSprites(p[1], p[2])
          /\ render_sprite(arg.ppu, 0, p[1], p[2]) # render_sprite(arg.ppu, 4, p[1], p[2])
          /\ ret.frame[p] = render_sprite(arg.ppu, 0, p[1], p[2])

\* the scenario of C19: scroll (0, 0), the main nametable all tile 0 with
\* attribute bytes 0, tile 0 of the background bank all zero bits
BlankBackground(ppu) ==
    /\ ppu.scroll.scroll_x = 0 /\ ppu.scroll.scroll_y = 0
    /\ \A i \in 0..1023 : table_at(ppu.vram, nametables(ppu).main + i) = 0
    /\ \A k \in 0..15 :
          table_at(ppu.chr_rom, (IF BitAnd(ppu.ctrl, 16) = 0 THEN 0 ELSE 4096) + k) = 0

\* C19: in that scenario the background pass writes
\* SYSTEM_PALLETE[palette_table[0]] to every position of the frame
C19_BlankBackgroundColour ==
    (loc = "rendered" /\ BlankBackground(arg.ppu)) =>
        \A p \in DOMAIN ret.background :
            ret.background[p] = SYSTEM_PALLETE[arg.ppu.palette_table[0] + 1]

C19_Witness ==
    /\ loc = "rendered" /\ BlankBackground(arg.ppu)
    /\ arg.ppu.ctrl = 16 /\ arg.ppu.palette_table[0] = 33 /\ arg.window = RowBand(29)
    /\ ret.background[<<255, 239>>] = <<15, 215, 255>>

\* the condition a branch opcode tests on the status register
BranchCondition(opcode, status) ==
    CASE opcode = 16  -> ~contains(status, NEGATIVE)
      [] opcode = 48  -> contains(status, NEGATIVE)
      [] opcode = 80  -> ~contains(status, OVERFLOW)
      [] opcode = 112 -> contains(status, OVERFLOW)
      [] opcode = 144 -> ~contains(status, CARRY)
      [] opcode = 176 -> contains(status, CARRY)
      [] opcode = 208 -> ~contains(status, ZERO)
      [] opcode = 240 -> contains(status, ZERO)

\* C21: a branch at P with signed offset o leaves the program counter at
\* (P + 2 + o) mod 2^16 when its condition holds and at P + 2 when not
C21_BranchTarget ==
    loc = "instr_done" =>
        LET P == arg.before.program_counter
            o == as_i8(arg.offset)
        IN cpu.program_counter =
              IF BranchCondition(arg.opcode, arg.before.status)
              THEN (P + 2 + o + 65536) % 65536
              ELSE P + 2

\* C22: JSR at P pushes P + 2, high byte first, and sets the program counter
\* to its operand; the RTS that pops that value sets the program counter to
\* P + 3 and brings the stack pointer back to its value before the JSR
C22_JsrRtsRoundTrip ==
    LET P  == arg.before.program_counter
        sp == arg.before.stack_pointer
    IN /\ loc # "panicked"
       /\ loc = "jsr_done" =>
             /\ mem_read(cpu, STACK + sp) = ((P + 2) % 65536) \div 256
             /\ mem_read(cpu, STACK + ((sp + 255) % 256)) = (P + 2) % 256
             /\ cpu.stack_pointer = (sp + 254) % 256
             /\ cpu.program_counter = arg.operand
       /\ loc = "rts_done" =>
             /\ cpu.program_counter = (P + 3) % 65536
             /\ cpu.stack_pointer = sp

\* C23: a loop iteration that dispatches an instruction advances the bus
\* clock by the base cycle count the opcode table gives for its opcode
C23_ClockAdvancesByBaseCycles ==
    [][(loc = "fetch" /\ loc' = "loop_top") =>
          cpu'.bus.cycles = cpu.bus.cycles + OPCODES_MAP[fetch_opcode(cpu)].cycles]_vars

\* the register an instruction of C24 writes, as it is after the instruction
DestinationRegister(opcode, c) ==
    CASE opcode \in {169, 138, 152, 104}      -> c.register_a
      [] opcode \in {162, 170, 186, 232, 202} -> c.register_x
      [] opcode \in {160, 168, 200, 136}      -> c.register_y

\* C24: after an instruction that writes a register, Zero is set iff the
\* value in the destination register is 0 and Negative iff its bit 7 is 1
C24_FlagsFromDestination ==
    loc = "instr_done" =>
        LET w == DestinationRegister(arg.opcode, cpu)
        IN /\ contains(cpu.status, ZERO) <=> (w = 0)
           /\ contains(cpu.status, NEGATIVE) <=> (w >= 128)

\* what the 6502 shifts and rotates make of byte m with carry-in c: the
\* resulting byte and the bit shifted out
Shifted(kind, m, c) ==
    CASE kind = "ASL" -> [value |-> (2 * m) % 256,     out |-> m \div 128]
      [] kind = "LSR" -> [value |-> m \div 2,           out |-> m % 2]
      [] kind = "ROL" -> [value |-> ((2 * m) % 256) + c, out |-> m \div 128]
      [] kind = "ROR" -> [value |-> (m \div 2) + 128 * c, out |-> m % 2]

\* the shift or rotate an opcode performs
ShiftKind(opcode) ==
    LET m == OPCODES_MAP[opcode].mnemonic
    IN CASE m \in {"ASL", "SLO"} -> "ASL"
         [] m \in {"LSR", "SRE"} -> "LSR"
         [] m \in {"ROL", "RLA"} -> "ROL"
         [] m \in {"ROR", "RRA"} -> "ROR"

\* C25: after an accumulator-mode ASL, LSR, ROL or ROR the accumulator holds
\* the shifted or rotated value, Carry is the bit shifted out, and Zero and
\* Negative are set from the new accumulator
C25_ShiftAccumulator ==
    loc = "instr_done" =>
        LET s == Shifted(ShiftKind(arg.opcode), arg.a, arg.carry)
        IN /\ cpu.register_a = s.value
           /\ contains(cpu.status, CARRY) <=> (s.out = 1)
           /\ contains(cpu.status, ZERO) <=> (s.value = 0)
           /\ contains(cpu.status, NEGATIVE) <=> (s.value >= 128)

\* C26: ASL, LSR, ROL and ROR of a memory byte store the shifted value in that
\* byte and set Carry, Zero and Negative from it; the rest of memory, the
\* accumulator, X, Y, the stack pointer and the other flags are unchanged
C26_ShiftMemoryFrame ==
    loc = "instr_done" =>
        LET s    == Shifted(ShiftKind(arg.opcode), arg.m, arg.carry)
            addr == OperandAddressFor(arg.opcode)
        IN /\ cpu.bus = bus_mem_write(arg.before.bus, addr, s.value)
           /\ contains(cpu.status, CARRY) <=> (s.out = 1)
           /\ contains(cpu.status, ZERO) <=> (s.value = 0)
           /\ contains(cpu.status, NEGATIVE) <=> (s.value >= 128)
           /\ \A f \in {INTERRUPT_DISABLE, DECIMAL_MODE, BREAK, BREAK2, OVERFLOW} :
                 contains(cpu.status, f) <=> contains(arg.before.status, f)
           /\ cpu.register_a = arg.before.register_a
           /\ cpu.register_x = arg.before.register_x
           /\ cpu.register_y = arg.before.register_y
           /\ cpu.stack_pointer = arg.before.stack_pointer

\* the accumulator SLO, RLA, SRE and RRA leave: a OR s, a AND s, a XOR s,
\* resp. a + s + the bit shifted out
Combined(kind, a, s) ==
    CASE kind = "ASL" -> BitOr(a, s.value)
      [] kind = "ROL" -> BitAnd(a, s.value)
      [] kind = "LSR" -> BitXor(a, s.value)
      [] kind = "ROR" -> (a + s.value + s.out) % 256

\* C27: SLO, RLA, SRE and RRA store the shifted or rotated byte s in memory
\* and leave a OR s, a AND s, a XOR s resp. a + s + Carry in the accumulator,
\* with Zero and Negative set from the new accumulator
C27_ShiftThenCombine ==
    loc = "instr_done" =>
        LET kind == ShiftKind(arg.opcode)
            s    == Shifted(kind, arg.m, arg.carry)
            acc  == Combined(kind, arg.a, s)
        IN /\ mem_read(cpu, OperandAddressFor(arg.opcode)) = s.value
           /\ cpu.register_a = acc
           /\ contains(cpu.status, ZERO) <=> (acc = 0)
           /\ contains(cpu.status, NEGATIVE) <=> (acc >= 128)
           /\ kind # "ROR" => (contains(cpu.status, CARRY) <=> (s.out = 1))

\* C28: DCP stores m' = (m - 1) mod 256 and sets the flags as CMP of the
\* accumulator against m': Carry iff m' <= A, Zero and Negative from
\* (A - m') mod 256; the accumulator is unchanged
C28_DcpComparesDecremented ==
    loc = "instr_done" =>
        LET m1   == (arg.m + 255) % 256
            diff == (arg.a - m1 + 256) % 256
        IN /\ mem_read(cpu, OperandAddressFor(arg.opcode)) = m1
           /\ contains(cpu.status, CARRY) <=> (m1 <= arg.a)
           /\ contains(cpu.status, ZERO) <=> (diff = 0)
           /\ contains(cpu.status, NEGATIVE) <=> (diff >= 128)
           /\ cpu.register_a = arg.a

\* C29: CMP, CPX and CPY of register value r with operand m set Carry iff
\* m <= r, Zero iff r = m and Negative to bit 7 of (r - m) mod 256; the
\* registers, the stack pointer, memory and the other flags are unchanged
C29_CompareFlags ==
    loc = "instr_done" =>
        LET diff == (arg.r - arg.m + 256) % 256
        IN /\ contains(cpu.status, CARRY) <=> (arg.m <= arg.r)
           /\ contains(cpu.status, ZERO) <=> (arg.r = arg.m)
           /\ contains(cpu.status, NEGATIVE) <=> (diff >= 128)
           /\ \A f \in {INTERRUPT_DISABLE, DECIMAL_MODE, BREAK, BREAK2, OVERFLOW} :
                 contains(cpu.status, f) <=> contains(arg.before.status, f)
           /\ cpu.register_a = arg.before.register_a
           /\ cpu.register_x = arg.before.register_x
           /\ cpu.register_y = arg.before.register_y
           /\ cpu.stack_pointer = arg.before.stack_pointer
           /\ cpu.bus = arg.before.bus

C29_Witness ==
    /\ loc = "instr_done" /\ arg.opcode = 224 /\ arg.r = 16 /\ arg.m = 32
    /\ arg.before.status = 231 /\ cpu.register_x = 16
    /\ cpu.status = 228

\* C30: ADC of operand d with accumulator a and carry-in c leaves
\* (a + d + c) mod 256 in the accumulator, Carry set iff a + d + c > 0xFF,
\* and Overflow set iff (d XOR result) AND (result XOR a) AND 0x80 is not 0,
\* which is exactly when the signed sum of a, d and c is outside -128..127
C30_AdcResultCarryOverflow ==
    loc = "instr_done" =>
        LET sum    == arg.a + arg.d + arg.carry
            result == sum % 256
            signed == as_i8(arg.a) + as_i8(arg.d) + arg.carry
            bits   == BitAnd(BitAnd(BitXor(arg.d, result), BitXor(result, arg.a)), 128)
        IN /\ cpu.register_a = result
           /\ contains(cpu.status, CARRY) <=> (sum > 255)
           /\ contains(cpu.status, OVERFLOW) <=> (bits # 0)
           /\ (bits # 0) <=> (signed < -128 \/ signed > 127)

C30_Witness ==
    /\ loc = "instr_done" /\ arg.a = 127 /\ arg.d = 0 /\ arg.carry = 1
    /\ arg.before.status = 37
    /\ cpu.register_a = 128
    /\ contains(cpu.status, OVERFLOW) /\ ~contains(cpu.status, CARRY)

\* C31: SBC of operand d with accumulator a and carry-in c completes for every
\* d and leaves what ADC of the bitwise complement of d leaves: accumulator
\* (a - d - (1 - c)) mod 256, Carry set iff a >= d + (1 - c)
C31_SbcIsAdcOfComplement ==
    /\ loc # "panicked"
    /\ loc = "instr_done" =>
          LET borrow == 1 - arg.carry
              viaAdc == add_to_register_a(after_fetch(arg.before), 255 - arg.d)
          IN /\ cpu.register_a = (arg.a - arg.d - borrow + 512) % 256
             /\ contains(cpu.status, CARRY) <=> (arg.a >= arg.d + borrow)
             /\ cpu.register_a = viaAdc.register_a
             /\ cpu.status = viaAdc.status

C31_Witness ==
    /\ loc = "instr_done" /\ arg.a = 0 /\ arg.d = 128 /\ arg.carry = 1
    /\ cpu.register_a = 128 /\ ~contains(cpu.status, CARRY)

\* C32: a NOP, DOP or TOP opcode completes and changes only the program
\* counter, which ends at the opcode address plus the instruction's length
C32_NopOnlyAdvances ==
    /\ loc # "panicked"
    /\ loc = "instr_done" =>
          /\ OPCODES_MAP[arg.opcode].len \in 1..3
          /\ cpu = [arg.before EXCEPT
                       !.program_counter = @ + OPCODES_MAP[arg.opcode].len]

C32_Witness ==
    /\ loc = "instr_done" /\ arg.opcode = 28
    /\ arg.before.program_counter = 1536 /\ cpu.program_counter = 1539
    /\ cpu.register_x = 255 /\ cpu.status = 231 /\ cpu.bus = arg.before.bus

\* C33: a push writes the byte at 0x0100 + SP and then decrements SP modulo
\* 256; a pop increments SP modulo 256 and then returns the byte at
\* 0x0100 + SP; neither touches anything outside 0x0100..0x01FF
C33_StackStaysInPage ==
    LET sp == arg.before.stack_pointer
    IN /\ loc = "page_pushed" =>
             /\ cpu.bus = bus_mem_write(arg.before.bus, 256 + sp, arg.value)
             /\ cpu.stack_pointer = (sp + 255) % 256
             /\ \A k \in DOMAIN cpu.bus.mem : k \in 256..511
       /\ loc = "page_popped" =>
             /\ cpu.stack_pointer = (sp + 1) % 256
             /\ ret = StackPageImage[256 + ((sp + 1) % 256)]
             /\ cpu.bus = arg.before.bus

C33_Witness ==
    /\ loc = "page_pushed" /\ arg.before.stack_pointer = 0 /\ arg.value = 170
    /\ cpu.stack_pointer = 255 /\ mem_read(cpu, 256) = 170
    /\ mem_read(cpu, 511) = StackPageImage[511]

\* C34: ZeroPage_X and ZeroPage_Y resolve to (b + index) mod 256, below
\* 0x0100; Indirect_X takes the low byte of its pointer at (b + X) mod 256
\* and the high byte at (b + X + 1) mod 256 and returns that address as is
C34_ZeroPageIndexWraps ==
    loc = "index_done" =>
        IF arg.mode = "Indirect_X"
        THEN ret = ZeroPageImage[(arg.b + arg.index) % 256]
                   + 256 * ZeroPageImage[(arg.b + arg.index + 1) % 256]
        ELSE ret = (arg.b + arg.index) % 256 /\ ret < 256

C34_Witness ==
    /\ loc = "index_done" /\ arg.mode = "Indirect_X"
    /\ arg.b = 253 /\ arg.index = 2
    /\ ret = ZeroPageImage[255] + 256 * ZeroPageImage[0]
    /\ ret # ZeroPageImage[255] + 256 * ZeroPageImage[256]

\* C35: the k-th write since construction or the last reset_latch sets
\* scroll_x when k is odd and scroll_y when k is even and leaves the other
\* byte alone, and the latch is true exactly after an odd number of writes
C35_ScrollLatchAlternates ==
    loc = "scroll" =>
        /\ arg.reg.latch = (arg.writes % 2 = 1)
        /\ arg.last = "write" =>
              IF arg.writes % 2 = 1
              THEN /\ arg.reg.scroll_x = arg.data
                   /\ arg.reg.scroll_y = arg.before.scroll_y
              ELSE /\ arg.reg.scroll_y = arg.data
                   /\ arg.reg.scroll_x = arg.before.scroll_x

C35_Witness ==
    /\ loc = "scroll" /\ arg.last = "write" /\ arg.writes = 1 /\ arg.ops = 5
    /\ arg.before = [scroll_x |-> 128, scroll_y |-> 255, latch |-> FALSE]
    /\ arg.reg = [scroll_x |-> 1, scroll_y |-> 255, latch |-> TRUE]

\* C36: main and secondary nametable are fixed by (mirroring, base address):
\* Vertical with 0x2000 or 0x2800 and Horizontal with 0x2000 or 0x2400 give
\* main = vram[0..0x400) and secondary = vram[0x400..0x800), Vertical with
\* 0x2400 or 0x2C00 and Horizontal with 0x2800 or 0x2C00 the reverse; the two
\* are always the two different halves, and any other mirroring aborts
C36_NametableChoice ==
    LET mirroring == arg.ppu.mirroring
        base      == 8192 + 1024 * (arg.ppu.ctrl % 4)
    IN /\ loc = "nametables_chosen" =>
             /\ (\/ mirroring = "Vertical" /\ base \in {8192, 10240}
                 \/ mirroring = "Horizontal" /\ base \in {8192, 9216})
                    => ret = [main |-> 0, second |-> 1024]
             /\ (\/ mirroring = "Vertical" /\ base \in {9216, 11264}
                 \/ mirroring = "Horizontal" /\ base \in {10240, 11264})
                    => ret = [main |-> 1024, second |-> 0]
             /\ {ret.main, ret.second} = {0, 1024}
             /\ mirroring \in {"Vertical", "Horizontal"}
       /\ loc = "panicked" => mirroring \notin {"Vertical", "Horizontal"}

C36_Witness ==
    /\ loc = "nametables_chosen" /\ arg.ppu.mirroring = "Horizontal"
    /\ arg.ppu.ctrl = 129 /\ arg.ppu.scroll.scroll_x = 8
    /\ ret = [main |-> 0, second |-> 1024]

\* C37: the secondary nametable is drawn into the columns exposed by
\* horizontal scrolling whenever scroll_x is not 0 and into the rows exposed
\* by vertical scrolling whenever scroll_y is not 0, also when both are not
\* 0; the part of the frame that is not exposed shows the main nametable
C37_BothSecondPasses ==
    loc = "rendered" =>
        LET scroll_x == arg.ppu.scroll.scroll_x
            scroll_y == arg.ppu.scroll.scroll_y
        IN \A p \in Window :
            /\ (p[1] >= 256 - scroll_x /\ p[2] < 240 - scroll_y)
                    => ret.frame[p] = SecondColour
            /\ (p[1] < 256 - scroll_x /\ p[2] >= 240 - scroll_y)
                    => ret.frame[p] = SecondColour
            /\ (p[1] < 256 - scroll_x /\ p[2] < 240 - scroll_y)
                    => ret.frame[p] = MainColour

\* C38: for every scroll_x and scroll_y the background passes of render
\* compute their offsets without integer underflow and call set_pixel only
\* with 0 <= x < 256 and 0 <= y < 240
C38_SetPixelInFrame ==
    /\ loc # "panicked"
    /\ loc = "passes_done" =>
          /\ ~second_shift_underflows(arg.ppu)
          /\ \A i \in DOMAIN ret :
                (ret[i].xs # {} /\ ret[i].ys # {}) =>
                    /\ \A x \in ret[i].xs : 0 <= x /\ x < 256
                    /\ \A y \in ret[i].ys : 0 <= y /\ y < 240

\* C39: for every opcode of the table and every state the match reaches an
\* arm and never ends in the abort for an unsupported addressing mode, for
\* an unimplemented mnemonic or for an unparsable status byte: no handler
\* that resolves an operand is listed with NoneAddressing, every mnemonic of
\* the table has an arm, every length is 1, 2 or 3, and PLP and RTI take
\* every status byte
C39_DispatchTotal ==
    /\ \A i \in DOMAIN CPU_OPS_CODES :
          /\ CPU_OPS_CODES[i].mnemonic \in HandledMnemonics
          /\ CPU_OPS_CODES[i].len \in 1..3
          /\ CPU_OPS_CODES[i].mnemonic \in OperandMnemonics
                => CPU_OPS_CODES[i].mode # "NoneAddressing"
    /\ \A b \in Byte : from_bits(b) = b
    /\ loc \in {"dispatched", "returned", "panicked"} =>
          ret \notin {"todo", "mode_not_supported", "status_parse"}

C39_Witness ==
    /\ loc = "dispatched" /\ arg.opcode = 40 /\ arg.top = 255
    /\ ret = "handled" /\ cpu.status = 239 /\ cpu.stack_pointer = 253

\* C40: for every addressing mode other than Immediate and NoneAddressing,
\* get_absolute_address(mode, addr) gives the effective address that
\* get_operand_address(mode) gives with the program counter at addr, and
\* neither call changes a register, a flag or a memory byte
C40_AbsoluteAddressRefines ==
    loc = "absolute_done" =>
        /\ ret.absolute = ret.operand
        /\ cpu = arg.before

C40_Witness ==
    /\ loc = "absolute_done" /\ arg.mode = "Indirect_Y" /\ arg.addr = 512
    /\ mem_read(cpu, 512) = 255 /\ cpu.register_y = 2
    /\ ret.absolute = ZeroPageImage[255] + 256 * ZeroPageImage[0] + 2
    /\ ret.operand = ret.absolute

====
